---- MODULE Spec2Model ----
(***************************************************************************)
(* Model of the HackX document assistant back end: the FileLoader text     *)
(* extraction (src/backend/utils/file_loader.py), the upload route         *)
(* (src/backend/routes/upload.py) and the ingestion pipeline               *)
(* DocumentProcessor.process_document with its collaborators               *)
(* (src/backend/services/*.py).                                            *)
(*                                                                         *)
(* A text is abstracted to three lengths: leading whitespace, the core     *)
(* (first to last non-whitespace character) and trailing whitespace.  A    *)
(* whitespace-only text has core = 0 and keeps its whole length in lead.   *)
(* A file name is the sequence of its characters.                          *)
(***************************************************************************)
EXTENDS Integers, Sequences, FiniteSets, TLC

\* ------------------------------------------------------------------ bounds
\* Number of concurrent upload/ingestion requests that are modelled.
MaxReq == 2

\* ------------------------------------------------------- program constants
\* file_loader.py: _MIN_TEXT_LENGTH
MIN_TEXT_LENGTH == 50
\* document_processor.py: the literal of the Step 4 length gate
MinCleanLength == 50
\* pinecone_service.py: batch_size of upsert_vectors
batch_size == 100
\* config.py: Settings.CHUNK_SIZE, CHUNK_OVERLAP, MAX_FILE_SIZE_MB
CHUNK_SIZE == 1000
CHUNK_OVERLAP == 200
MAX_FILE_SIZE_MB == 50
\* config.py: Settings.TOP_K
TOP_K == 5

\* ------------------------------------------------------------------- texts
Txt(l, c, t) == [lead |-> l, core |-> c, trail |-> t]
EmptyText == Txt(0, 0, 0)
\* len(text)
TLen(t) == t.lead + t.core + t.trail
\* str.strip(): drops leading and trailing whitespace
Strip(t) == Txt(0, t.core, 0)
\* truth value of a str: non-empty
Truthy(t) == TLen(t) > 0

RECURSIVE SumCore(_)
SumCore(ts) == IF ts = <<>> THEN 0 ELSE Head(ts).core + SumCore(Tail(ts))

\* sep.join(parts) for parts that are stripped and non-empty; sepLen = len(sep),
\* sep being whitespace: the parts' cores and the separators between them form
\* the core of the result.
Join(parts, sepLen) ==
    IF parts = <<>> THEN EmptyText
    ELSE Txt(0, SumCore(parts) + sepLen * (Len(parts) - 1), 0)

\* [t.strip() for t in ts if t.strip()]
RECURSIVE StrippedNonEmpty(_)
StrippedNonEmpty(ts) ==
    IF ts = <<>> THEN <<>>
    ELSE IF Truthy(Strip(Head(ts)))
         THEN <<Strip(Head(ts))>> \o StrippedNonEmpty(Tail(ts))
         ELSE StrippedNonEmpty(Tail(ts))

\* -------------------------------------------------------------- file names
\* str.lower() on the characters that occur in the modelled names
LowerChar(c) ==
    CASE c = "T" -> "t" [] c = "X" -> "x" [] c = "P" -> "p"
      [] c = "D" -> "d" [] c = "F" -> "f" [] c = "E" -> "e" [] OTHER -> c

Lower(s) == [i \in 1..Len(s) |-> LowerChar(s[i])]

\* str.rfind(ch): the last index of ch in s, 0 when absent
LastIndexOf(s, ch) ==
    IF \E i \in 1..Len(s) : s[i] = ch
    THEN CHOOSE i \in 1..Len(s) : s[i] = ch /\ \A j \in (i+1)..Len(s) : s[j] # ch
    ELSE 0

\* pathlib Path(p).name: the final path component
PathName(p) == SubSeq(p, LastIndexOf(p, "/") + 1, Len(p))

\* pathlib Path(p).suffix: the part of the final component from its last dot,
\* empty when there is no dot, when the dot is the first character of the
\* component or when the component ends with the dot.
PathSuffix(p) ==
    LET n == PathName(p)
        i == LastIndexOf(n, ".")
    IN  IF i > 1 /\ i < Len(n) THEN SubSeq(n, i, Len(n)) ELSE <<>>

SUPPORTED_EXTENSIONS ==
    { <<".", "p", "d", "f">>, <<".", "d", "o", "c", "x">>, <<".", "t", "x", "t">> }

\* result of validate_extension: the normalised extension or the exception
ExtOk(e) == [ok |-> TRUE, ext |-> e, exc |-> "none"]
ExtRaise(x) == [ok |-> FALSE, ext |-> <<>>, exc |-> x]

\* a variant that takes the extension as the upload route does, by splitting
\* the whole name at its last dot
validate_extension_rsplit(file_path) ==
    LET i == LastIndexOf(file_path, ".")
        ext == IF i = 0 THEN <<>>
               ELSE Lower(SubSeq(file_path, i, Len(file_path)))
    IN  IF ext \notin SUPPORTED_EXTENSIONS
        THEN ExtRaise("UnsupportedFileTypeError")
        ELSE ExtOk(ext)

\* a variant that forgets to lower-case the suffix
validate_extension_nolower(file_path) ==
    LET ext == PathSuffix(file_path)
    IN  IF ext \notin SUPPORTED_EXTENSIONS
        THEN ExtRaise("UnsupportedFileTypeError")
        ELSE ExtOk(ext)

\* FileLoader.validate_extension
validate_extension(file_path) ==
    LET ext == Lower(PathSuffix(file_path))
    IN  IF ext \notin SUPPORTED_EXTENSIONS
        THEN ExtRaise("UnsupportedFileTypeError")
        ELSE ExtOk(ext)

\* -------------------------------------------------------------- FileLoader
\* The exception hierarchy of file_loader.py: FileLoadError and its subclasses
FileLoadErrors ==
    { "FileLoadError", "UnsupportedFileTypeError", "CorruptedFileError",
      "PasswordProtectedError", "EmptyDocumentError", "OCRUnavailableError" }

\* Result of a loader: the returned text, or the exception raised; ran lists
\* the parsing steps that were executed, in order.
LoadOk(t, ran) == [ok |-> TRUE, text |-> t, exc |-> "none", ran |-> ran, msg |-> <<>>]
LoadRaise(x, ran) ==
    [ok |-> FALSE, text |-> EmptyText, exc |-> x, ran |-> ran, msg |-> <<>>]
\* an exception whose message is followed up: msg is str(e)
LoadRaiseMsg(x, ran, m) == [LoadRaise(x, ran) EXCEPT !.msg = m]

\* ---- TXT
\* a variant that tries Latin-1 first
encodings_latin1_first == << "latin-1", "utf-8", "utf-8-sig", "cp1252" >>

encodings == << "utf-8", "utf-8-sig", "latin-1", "cp1252" >>

\* FileLoader._load_txt, from the i-th encoding of the cascade on
RECURSIVE load_txt_from(_, _, _)
load_txt_from(f, i, ran) ==
    IF i > Len(encodings)
    THEN \* all encodings fell through: read_bytes decides the message only
         IF f.read_bytes_error
         THEN LoadRaise("OSError", Append(ran, "read_bytes"))
         ELSE LoadRaise("EmptyDocumentError", Append(ran, "read_bytes"))
    ELSE LET d == f.dec[encodings[i]]
             ran2 == Append(ran, encodings[i])
         IN  CASE d.kind = "decode_error" -> load_txt_from(f, i + 1, ran2)
               [] d.kind = "error" -> LoadRaise("CorruptedFileError", ran2)
               [] OTHER ->
                    IF Truthy(Strip(d.text))
                    THEN LoadOk(d.text, ran2)
                    ELSE load_txt_from(f, i + 1, ran2)

\* FileLoader._load_txt
load_txt(f) == load_txt_from(f, 1, <<>>)

\* ---- DOCX
\* "\t".join(cell.text.strip() for cell in row.cells if cell.text.strip())
RowText(cells) == Join(StrippedNonEmpty(cells), 1)

RECURSIVE RowTexts(_)
RowTexts(rows) ==
    IF rows = <<>> THEN <<>> ELSE <<RowText(Head(rows))>> \o RowTexts(Tail(rows))

RECURSIVE TableRows(_)
TableRows(tables) ==
    IF tables = <<>> THEN <<>> ELSE Head(tables) \o TableRows(Tail(tables))

\* sub in s
Contains(s, sub) ==
    \E i \in 1..(Len(s) - Len(sub) + 1) : SubSeq(s, i, i + Len(sub) - 1) = sub

\* str(e) of the exception a failing DocxDocument(path) raises
DocxOpenMessage(o) ==
    CASE o = "password_message" -> << "P", "a", "s", "s", "w", "o", "r", "d", "?" >>
      [] o = "encrypt_message" -> << "i", "s", " ", "E", "n", "c", "r", "y", "p", "t", "e", "d" >>
      [] OTHER -> << "n", "o", " ", "z", "i", "p" >>

\* a variant that lists the tables before the paragraphs
docx_text_parts_tables_first(f) ==
    StrippedNonEmpty(RowTexts(TableRows(f.tables))) \o StrippedNonEmpty(f.paragraphs)

\* _load_docx: the list text_parts after the two loops
docx_text_parts(f) ==
    StrippedNonEmpty(f.paragraphs) \o StrippedNonEmpty(RowTexts(TableRows(f.tables)))

\* FileLoader._load_docx
load_docx(f) ==
    IF f.import_error THEN LoadRaise("FileLoadError", <<>>)
    ELSE IF f.open # "ok"
    THEN LET error_str == Lower(DocxOpenMessage(f.open))
         IN  IF \/ Contains(error_str, << "p", "a", "s", "s", "w", "o", "r", "d" >>)
                \/ Contains(error_str, << "e", "n", "c", "r", "y", "p", "t" >>)
             THEN LoadRaise("PasswordProtectedError", <<"docx_open">>)
             ELSE LoadRaise("CorruptedFileError", <<"docx_open">>)
    ELSE IF f.read_error
    THEN LoadRaise("CorruptedFileError", <<"docx_open", "docx_read">>)
    ELSE LET text_parts == docx_text_parts(f)
             full_text == Join(text_parts, 2)
         IN  IF ~Truthy(Strip(full_text))
             THEN LoadRaise("EmptyDocumentError", <<"docx_open", "docx_read">>)
             ELSE LoadOk(full_text, <<"docx_open", "docx_read">>)

\* ---- PDF
\* a variant that gives up at the first page that fails
RECURSIVE PageTextsUntilError(_)
PageTextsUntilError(pages) ==
    IF pages = <<>> THEN <<>>
    ELSE IF Head(pages).err
         THEN <<>>
         ELSE StrippedNonEmpty(<<Head(pages).text>>) \o PageTextsUntilError(Tail(pages))

\* "\n\n".join of the stripped non-empty texts of the pages whose extraction
\* did not raise (a failing page is logged and skipped)
RECURSIVE PageTexts(_)
PageTexts(pages) ==
    IF pages = <<>> THEN <<>>
    ELSE IF Head(pages).err
         THEN PageTexts(Tail(pages))
         ELSE StrippedNonEmpty(<<Head(pages).text>>) \o PageTexts(Tail(pages))

\* FileLoader._pdf_stage_pypdf2: "" when the reader cannot be opened
pdf_stage_pypdf2(f) ==
    IF f.s1.open_error THEN EmptyText ELSE Join(PageTexts(f.s1.pages), 2)

\* One page of stage 2: the page text, then the rendered tables of the page;
\* an exception of extract_tables leaves the text that was already appended.
PlumberPage(pg) ==
    IF pg.err THEN <<>>
    ELSE StrippedNonEmpty(<<pg.text>>)
         \o (IF pg.tables_err THEN <<>> ELSE StrippedNonEmpty(pg.tables))

RECURSIVE PlumberTexts(_)
PlumberTexts(pages) ==
    IF pages = <<>> THEN <<>>
    ELSE PlumberPage(Head(pages)) \o PlumberTexts(Tail(pages))

\* FileLoader._pdf_stage_pdfplumber: "" when pdfplumber is missing or fails
pdf_stage_pdfplumber(f) ==
    IF f.s2.import_error \/ f.s2.open_error THEN EmptyText
    ELSE Join(PlumberTexts(f.s2.pages), 2)

\* The exception raised inside stage 3 outside its page loop, and where
OcrFault(f) ==
    CASE f.s3.import_error -> [site |-> "import", exc |-> "ImportError"]
      [] f.s3.convert_error -> [site |-> "convert", exc |-> "PDFPageCountError"]
      [] f.s3.other_error -> [site |-> "body", exc |-> "Exception"]
      [] OTHER -> [site |-> "-", exc |-> "none"]

\* a variant of stage 3 without its except clauses
OcrHandlerPasses(site, x) == x

\* The except clauses of _pdf_stage_ocr: except ImportError around the
\* imports, except Exception around convert_from_path and around the body;
\* each returns "".  The exception that leaves the stage, or "none"
OcrHandler(site, x) ==
    IF site = "import" /\ x # "ImportError" THEN x ELSE "none"

\* The exception _pdf_stage_ocr raises, or "none" when it returns
pdf_stage_ocr_raises(f) == OcrHandler(OcrFault(f).site, OcrFault(f).exc)

\* FileLoader._pdf_stage_ocr: "" when the OCR packages are missing, the
\* rasterisation fails or the body fails
pdf_stage_ocr(f) ==
    IF OcrFault(f).exc # "none" THEN EmptyText
    ELSE Join(PageTexts(f.s3.pages), 2)

\* FileLoader._pdf_preflight_check: "none" when it returns, else the exception
\* it raises.  A failing import of PyPDF2 leaves PdfReadError unbound when the
\* except clauses are matched.
pdf_preflight_check(f) ==
    CASE f.preflight = "encrypted" -> "PasswordProtectedError"
      [] f.preflight = "decrypt_raises" -> "PasswordProtectedError"
      [] f.preflight = "zero_pages" -> "EmptyDocumentError"
      [] f.preflight = "PdfReadError" -> "CorruptedFileError"
      [] f.preflight = "import_error" -> "UnboundLocalError"
      [] OTHER -> "none"   \* "ok", "blank_password", "other_exception"

\* a variant that accepts any text that is not blank
SufficientNonBlank(text) == Truthy(text) /\ Truthy(Strip(text))

\* text and len(text.strip()) >= _MIN_TEXT_LENGTH
Sufficient(text) == Truthy(text) /\ TLen(Strip(text)) >= MIN_TEXT_LENGTH

\* FileLoader._load_pdf
load_pdf(f) ==
    LET pre == pdf_preflight_check(f)
        t1 == pdf_stage_pypdf2(f)
        t2 == pdf_stage_pdfplumber(f)
        t3 == pdf_stage_ocr(f)
        x3 == pdf_stage_ocr_raises(f)
    IN  IF pre # "none" THEN LoadRaise(pre, <<"preflight">>)
        ELSE IF Sufficient(t1) THEN LoadOk(Strip(t1), <<"preflight", "pypdf2">>)
        ELSE IF Sufficient(t2)
        THEN LoadOk(Strip(t2), <<"preflight", "pypdf2", "pdfplumber">>)
        ELSE IF x3 # "none"
        THEN LoadRaise(x3, <<"preflight", "pypdf2", "pdfplumber", "ocr">>)
        ELSE IF Sufficient(t3)
        THEN LoadOk(Strip(t3), <<"preflight", "pypdf2", "pdfplumber", "ocr">>)
        ELSE LoadRaise("EmptyDocumentError",
                       <<"preflight", "pypdf2", "pdfplumber", "ocr">>)

\* ---- FileLoader.load
ExtPdf == <<".", "p", "d", "f">>
ExtDocx == <<".", "d", "o", "c", "x">>
ExtTxt == <<".", "t", "x", "t">>

\* a variant without the final except Exception clause
NormaliseLoadPasses(r) == r

\* the except clauses of load: a FileLoadError passes, anything else becomes
\* CorruptedFileError
NormaliseLoad(r) ==
    IF r.ok \/ r.exc \in FileLoadErrors THEN r
    ELSE LoadRaise("CorruptedFileError", r.ran)

\* f"File not found: {file_path}" and f"Path is not a file: {file_path}"
NotFoundMessage(file_path) ==
    << "F", "i", "l", "e", " ", "n", "o", "t", " ", "f", "o", "u", "n", "d", ":", " " >>
    \o file_path
NotAFileMessage(file_path) ==
    << "P", "a", "t", "h", " ", "i", "s", " ", "n", "o", "t", " ", "a", " ",
       "f", "i", "l", "e", ":", " " >> \o file_path

\* a variant that validates the extension before it looks for the file
load_extension_first(file_path, exists, is_file, f) ==
    LET v == validate_extension(file_path)
    IN  IF ~v.ok THEN LoadRaise(v.exc, <<>>)
        ELSE IF ~exists THEN LoadRaiseMsg("FileLoadError", <<>>, NotFoundMessage(file_path))
        ELSE IF ~is_file
        THEN LoadRaiseMsg("FileLoadError", <<>>, NotAFileMessage(file_path))
        ELSE IF v.ext = ExtPdf THEN NormaliseLoad(load_pdf(f))
        ELSE IF v.ext = ExtDocx THEN NormaliseLoad(load_docx(f))
        ELSE NormaliseLoad(load_txt(f))

\* FileLoader.load on a path whose final name is file_path; exists and is_file
\* are what Path.exists() and Path.is_file() answer, f is the stored file.
load(file_path, exists, is_file, f) ==
    IF ~exists THEN LoadRaiseMsg("FileLoadError", <<>>, NotFoundMessage(file_path))
    ELSE IF ~is_file THEN LoadRaiseMsg("FileLoadError", <<>>, NotAFileMessage(file_path))
    ELSE LET v == validate_extension(file_path)
         IN  IF ~v.ok THEN LoadRaise(v.exc, <<>>)
             ELSE IF v.ext = ExtPdf THEN NormaliseLoad(load_pdf(f))
             ELSE IF v.ext = ExtDocx THEN NormaliseLoad(load_docx(f))
             ELSE IF v.ext = ExtTxt THEN NormaliseLoad(load_txt(f))
             ELSE LoadRaise("UnsupportedFileTypeError", <<>>)

\* ------------------------------------------------------------------ inputs
\* File names offered to the system, as character sequences.
NameTxt == <<"a", ".", "t", "x", "t">>
NameTxtUpper == <<"a", ".", "T", "X", "T">>
NamePdf == <<"a", ".", "p", "d", "f">>
NamePdfInDir == <<"d", "/", "a", ".", "p", "d", "f">>
NameDocx == <<"a", ".", "d", "o", "c", "x">>
NameExe == <<"a", ".", "e", "x", "e">>
NameNoSuffix == <<"a">>
NameDotTxt == <<".", "t", "x", "t">>
NameTxtExe == <<"a", ".", "t", "x", "t", ".", "e", "x", "e">>
NameEmpty == << >>

\* A decoding attempt of read_text: the text, a UnicodeDecodeError, or another
\* error (OSError)
Dec(t) == [kind |-> "ok", text |-> t]
DecodeError == [kind |-> "decode_error", text |-> EmptyText]
ReadError == [kind |-> "error", text |-> EmptyText]

AllDec(d) == [e \in {"utf-8", "utf-8-sig", "latin-1", "cp1252"} |-> d]

\* A TXT file that decodes to t under every encoding
TxtFile(n, t) ==
    [size |-> n, read_bytes_error |-> FALSE, dec |-> AllDec(Dec(t))]

\* A TXT file whose bytes are not valid UTF-8 and decode as Latin-1 to t
Latin1File(n, t) ==
    [size |-> n, read_bytes_error |-> FALSE,
     dec |-> [e \in {"utf-8", "utf-8-sig", "latin-1", "cp1252"} |->
                IF e \in {"utf-8", "utf-8-sig"} THEN DecodeError ELSE Dec(t)]]

TxtEmpty == TxtFile(0, EmptyText)
TxtBlank == TxtFile(3, Txt(3, 0, 0))
TxtShort == TxtFile(5, Txt(0, 5, 0))
TxtTen == TxtFile(10, Txt(0, 10, 0))
Txt49 == TxtFile(51, Txt(1, 49, 1))
Txt50 == TxtFile(50, Txt(0, 50, 0))
Txt80 == TxtFile(80, Txt(0, 80, 0))
TxtPadded == TxtFile(85, Txt(2, 80, 3))
TxtLatin1 == Latin1File(60, Txt(0, 60, 0))
TxtUnreadable == [size |-> 80, read_bytes_error |-> TRUE, dec |-> AllDec(ReadError)]
\* long enough for more than batch_size chunks
TxtLong == TxtFile(81000, Txt(0, 81000, 0))
\* larger than the upload ceiling of the route
TxtOversize == TxtFile(MAX_FILE_SIZE_MB * 1024 * 1024 + 1, Txt(0, 80, 0))

TxtFiles ==
    { TxtEmpty, TxtBlank, TxtShort, TxtTen, Txt49, Txt50, Txt80, TxtPadded,
      TxtLatin1, TxtUnreadable, TxtLong }

Pg(t) == [err |-> FALSE, text |-> t]
PgErr == [err |-> TRUE, text |-> EmptyText]
Pg2(t, tabs) == [err |-> FALSE, text |-> t, tables_err |-> FALSE, tables |-> tabs]
Pg2TablesErr(t) == [err |-> FALSE, text |-> t, tables_err |-> TRUE, tables |-> <<>>]
Pg2Err == [err |-> TRUE, text |-> EmptyText, tables_err |-> FALSE, tables |-> <<>>]

Stage1(ps) == [open_error |-> FALSE, pages |-> ps]
Stage1Fails == [open_error |-> TRUE, pages |-> <<>>]
Stage2(ps) == [import_error |-> FALSE, open_error |-> FALSE, pages |-> ps]
Stage2Missing == [import_error |-> TRUE, open_error |-> FALSE, pages |-> <<>>]
Stage2Fails == [import_error |-> FALSE, open_error |-> TRUE, pages |-> <<>>]
Stage3(ps) ==
    [import_error |-> FALSE, convert_error |-> FALSE, other_error |-> FALSE, pages |-> ps]
Stage3Missing == [Stage3(<<>>) EXCEPT !.import_error = TRUE]
Stage3Fails == [Stage3(<<>>) EXCEPT !.convert_error = TRUE]
\* the pages are rasterised and the stage fails outside its page loop
Stage3Breaks == [Stage3(<<Pg(Txt(0, 80, 0))>>) EXCEPT !.other_error = TRUE]

PdfFile(n, pre, a, b, c) == [size |-> n, preflight |-> pre, s1 |-> a, s2 |-> b, s3 |-> c]

Blank == Txt(2, 0, 0)

\* native text layer of 60 characters on one page
PdfNative ==
    PdfFile(900, "ok", Stage1(<<Pg(Txt(1, 60, 1))>>),
            Stage2(<<Pg2(Txt(0, 60, 0), <<>>)>>), Stage3(<<Pg(Txt(0, 58, 0))>>))
\* three pages, the second fails in stage 1: 30 + 2 + 30 characters
PdfPageError ==
    PdfFile(900, "ok", Stage1(<<Pg(Txt(0, 30, 0)), PgErr, Pg(Txt(0, 30, 1))>>),
            Stage2(<<Pg2(Txt(0, 30, 0), <<>>), Pg2Err, Pg2(Txt(0, 30, 0), <<>>)>>),
            Stage3Missing)
\* short native text, stage 2 finds the text and a table: 20 + 2 + 40
PdfLayout ==
    PdfFile(900, "ok", Stage1(<<Pg(Txt(0, 10, 0))>>),
            Stage2(<<Pg2(Txt(0, 20, 0), <<Txt(0, 40, 1), Blank>>)>>),
            Stage3(<<Pg(Txt(0, 10, 0))>>))
\* stage 2 loses the tables of its page: 45 characters only, OCR reads 55
PdfTablesError ==
    PdfFile(900, "ok", Stage1(<<Pg(Blank)>>), Stage2(<<Pg2TablesErr(Txt(0, 45, 0))>>),
            Stage3(<<Pg(Txt(0, 55, 2))>>))
\* scanned document: no text layer, OCR recovers 200 characters
PdfScanned ==
    PdfFile(900, "ok", Stage1(<<Pg(EmptyText)>>), Stage2(<<Pg2(EmptyText, <<>>)>>),
            Stage3(<<Pg(Txt(1, 200, 1))>>))
\* scanned document and no OCR packages installed
PdfScannedNoOcr ==
    PdfFile(900, "ok", Stage1(<<Pg(EmptyText)>>), Stage2Missing, Stage3Missing)
\* every stage stays below the threshold
PdfAllShort ==
    PdfFile(900, "ok", Stage1(<<Pg(Txt(0, 49, 0))>>),
            Stage2(<<Pg2(Txt(0, 10, 0), <<>>)>>), Stage3(<<Pg(Txt(0, 20, 0)), PgErr>>))
PdfEncrypted == PdfFile(900, "encrypted", Stage1(<<PgErr>>), Stage2Fails, Stage3Fails)
PdfDecryptRaises ==
    PdfFile(900, "decrypt_raises", Stage1(<<PgErr>>), Stage2Fails, Stage3Fails)
PdfBlankPassword ==
    PdfFile(900, "blank_password", Stage1(<<Pg(Txt(0, 70, 0))>>),
            Stage2(<<Pg2(Txt(0, 70, 0), <<>>)>>), Stage3(<<Pg(Txt(0, 70, 0))>>))
PdfZeroPages == PdfFile(900, "zero_pages", Stage1(<<>>), Stage2(<<>>), Stage3(<<>>))
PdfCorrupt == PdfFile(900, "PdfReadError", Stage1Fails, Stage2Fails, Stage3Fails)
\* the preflight fails with an exception that is not PdfReadError
PdfOtherError == PdfFile(900, "other_exception", Stage1Fails, Stage2Fails, Stage3Fails)
\* PyPDF2 is not installed
PdfNoPyPDF2 ==
    PdfFile(900, "import_error", Stage1Fails, Stage2(<<Pg2(Txt(0, 60, 0), <<>>)>>),
            Stage3(<<Pg(Txt(0, 60, 0))>>))
PdfZeroBytes == PdfFile(0, "PdfReadError", Stage1Fails, Stage2Fails, Stage3Fails)

PdfFiles ==
    { PdfNative, PdfPageError, PdfLayout, PdfTablesError, PdfScanned,
      PdfScannedNoOcr, PdfAllShort, PdfEncrypted, PdfDecryptRaises,
      PdfBlankPassword, PdfZeroPages, PdfCorrupt, PdfOtherError, PdfNoPyPDF2,
      PdfZeroBytes }

DocxFile(n, o, ps, tabs) ==
    [size |-> n, import_error |-> FALSE, open |-> o, read_error |-> FALSE,
     paragraphs |-> ps, tables |-> tabs]

\* 40 + 2 + 30 characters of paragraph text
DocxParagraphs == DocxFile(700, "ok", <<Txt(0, 40, 0), Blank, Txt(1, 30, 0)>>, <<>>)
\* one table: a row of two filled cells (20 + 1 + 30) and an empty row
DocxTable ==
    DocxFile(700, "ok", <<>>,
             << << <<Txt(0, 20, 0), Blank, Txt(1, 30, 1)>>, <<Blank>> >> >>)
DocxShort == DocxFile(700, "ok", <<Txt(0, 5, 0)>>, <<>>)
DocxNoText == DocxFile(700, "ok", <<Blank>>, << << <<Blank>> >> >>)
DocxPassword == DocxFile(700, "password_message", <<>>, <<>>)
DocxEncrypted == DocxFile(700, "encrypt_message", <<>>, <<>>)
DocxCorrupt == DocxFile(700, "other_message", <<>>, <<>>)
DocxReadFails == [DocxFile(700, "ok", <<Txt(0, 60, 0)>>, <<>>) EXCEPT !.read_error = TRUE]
DocxNoLibrary == [DocxFile(700, "ok", <<Txt(0, 60, 0)>>, <<>>) EXCEPT !.import_error = TRUE]
DocxZeroBytes == DocxFile(0, "other_message", <<>>, <<>>)

DocxFiles ==
    { DocxParagraphs, DocxTable, DocxShort, DocxNoText, DocxPassword,
      DocxEncrypted, DocxCorrupt, DocxReadFails, DocxNoLibrary, DocxZeroBytes }

Up(n, f) == [file_name |-> n, file |-> f]

\* The uploads offered: every file behaviour under a name of its type, and the
\* names that are unsupported or unusual with an arbitrary content.
Uploads ==
    { Up(NameTxt, f) : f \in TxtFiles }
    \cup { Up(NamePdf, f) : f \in PdfFiles }
    \cup { Up(NameDocx, f) : f \in DocxFiles }
    \cup { Up(NameTxtUpper, Txt80), Up(NamePdfInDir, PdfNative),
           Up(NameExe, Txt80), Up(NameNoSuffix, Txt80), Up(NameDotTxt, Txt80),
           Up(NameTxtExe, Txt80) }

\* Uploads that only the route sees: its own checks reject them
RouteOnlyUploads == { Up(NameTxt, TxtOversize), Up(NameEmpty, Txt80) }

\* The uploads of the requests that run beside the first one
OtherUploads == { Up(NameTxt, Txt80), Up(NameTxt, TxtTen) }
\* long enough for more than TOP_K chunks
TxtMulti == TxtFile(5000, Txt(0, 5000, 0))
\* the documents that are ingested, asked about and deleted
LifecycleUploads == { Up(NameTxt, Txt80), Up(NameTxt, TxtMulti) }
\* the documents of the requests that run at the same time: two that are
\* stored, and three that fail before, in and after the extraction
ConcurrentUploads ==
    { Up(NameTxt, Txt80), Up(NameTxt, TxtMulti), Up(NameExe, Txt80),
      Up(NamePdf, PdfCorrupt), Up(NameTxt, TxtTen) }

Users == { "u1", "u2" }

\* ----------------------------------------------------------- collaborators
\* t and t.strip()
IsNonBlank(t) == Truthy(t) /\ Truthy(Strip(t))

\* a variant that keeps every entry
NonBlankKeepsAll(ts) == ts

\* [t for t in texts if t and t.strip()]
NonBlank(ts) == SelectSeq(ts, IsNonBlank)

\* RecursiveCharacterTextSplitter.split_text as TextSplitter configures it, on
\* a text without separators: one chunk when the text fits, otherwise windows
\* of CHUNK_SIZE characters that start every CHUNK_SIZE - CHUNK_OVERLAP.
SplitText(t) ==
    LET L == TLen(t)
        step == CHUNK_SIZE - CHUNK_OVERLAP
        n == IF L <= CHUNK_SIZE THEN 1
             ELSE ((L - CHUNK_OVERLAP) + step - 1) \div step
        size(i) == IF L - (i - 1) * step < CHUNK_SIZE
                   THEN L - (i - 1) * step ELSE CHUNK_SIZE
    IN  [i \in 1..n |-> Txt(0, size(i), 0)]

\* What the splitting library may hand back: its documented result, or a
\* result the caller of split guards against.
SplitBehaviours == { "normal", "empty_list", "all_blank", "with_blank", "raises" }

SplitOk(cs) == [ok |-> TRUE, chunks |-> cs, exc |-> "none"]
SplitRaise(x) == [ok |-> FALSE, chunks |-> <<>>, exc |-> x]

\* TextSplitter.split
split(text, lib) ==
    IF ~Truthy(text) \/ ~Truthy(Strip(text)) THEN SplitRaise("ValueError")
    ELSE CASE lib = "normal" -> SplitOk(SplitText(text))
           [] lib = "empty_list" -> SplitOk(<<>>)
           [] lib = "all_blank" -> SplitOk(<<Blank, EmptyText>>)
           [] lib = "with_blank" -> SplitOk(<<Blank>> \o SplitText(text))
           [] OTHER -> SplitRaise("TypeError")

EmbOk(vs) == [ok |-> TRUE, vectors |-> vs, exc |-> "none"]
EmbRaise(x) == [ok |-> FALSE, vectors |-> <<>>, exc |-> x]

\* The embedding of the i-th text handed to the model
Embedding(t, i) == [of |-> t, at |-> i]

\* EmbeddingService.embed_texts; model_ok tells whether aembed_documents
\* answers or raises
embed_texts(texts, model_ok) ==
    IF texts = <<>> THEN EmbRaise("ValueError")
    ELSE LET valid_texts == NonBlank(texts)
         IN  IF valid_texts = <<>> THEN EmbRaise("ValueError")
             ELSE IF ~model_ok THEN EmbRaise("RuntimeError")
             ELSE EmbOk([i \in 1..Len(valid_texts) |-> Embedding(valid_texts[i], i)])

Min(a, b) == IF a < b THEN a ELSE b

\* str(idx): the decimal digits of a natural number
RECURSIVE Digits(_)
Digits(n) == IF n < 10 THEN <<n>> ELSE Digits(n \div 10) \o <<n % 10>>

\* a variant that numbers the records within their batch
VectorIdInBatch(doc_id, idx) == <<doc_id, "_chunk_">> \o Digits(idx % batch_size)

\* a variant that numbers the records without the document id
VectorIdNoDocument(doc_id, idx) == <<"chunk_">> \o Digits(idx)

\* f"{document_id}_chunk_{idx}"
VectorId(doc_id, idx) == <<doc_id, "_chunk_">> \o Digits(idx)

\* a variant that loses the last record
prepare_vectors_short(cs, embs, user_id, doc_id, file_name) ==
    [k \in 1..(Min(Len(cs), Len(embs)) - 1) |->
        [id |-> VectorId(doc_id, k - 1),
         values |-> embs[k],
         metadata |-> [user_id |-> user_id, document_id |-> doc_id,
                       file_name |-> file_name, chunk_index |-> k - 1,
                       text |-> cs[k]]]]

\* DocumentProcessor._prepare_vectors: zip(chunks, embeddings), idx from 0
prepare_vectors(cs, embs, user_id, doc_id, file_name) ==
    [k \in 1..Min(Len(cs), Len(embs)) |->
        [id |-> VectorId(doc_id, k - 1),
         values |-> embs[k],
         metadata |-> [user_id |-> user_id, document_id |-> doc_id,
                       file_name |-> file_name, chunk_index |-> k - 1,
                       text |-> cs[k]]]]

\* a variant whose slice skips the first record of every batch
BatchOffByOne(vectors, i) == SubSeq(vectors, i + 2, Min(i + batch_size, Len(vectors)))

\* vectors[i : i + batch_size] with i counted from 0
Batch(vectors, i) == SubSeq(vectors, i + 1, Min(i + batch_size, Len(vectors)))

Range(q) == { q[k] : k \in 1..Len(q) }

\* Index.upsert of the backend: a record replaces the stored one with its id
IndexUpsert(idx, batch) ==
    { v \in idx : \A k \in 1..Len(batch) : batch[k].id # v.id } \cup Range(batch)

\* ----------------------------------------------------------------- errors
DPE(code) == [type |-> "DocumentProcessingError", code |-> code]
RawExc(t) == [type |-> t, code |-> "-"]

\* a variant whose FileLoadError clause comes first
ExtractHandlerBaseFirst(exc) ==
    IF exc \in FileLoadErrors THEN DPE("EXTRACTION_FAILED") ELSE RawExc(exc)

\* Step 3: the except clauses around FileLoader.load
ExtractHandler(exc) ==
    CASE exc = "PasswordProtectedError" -> DPE("PASSWORD_PROTECTED")
      [] exc = "CorruptedFileError" -> DPE("CORRUPTED_FILE")
      [] exc = "EmptyDocumentError" -> DPE("EMPTY_DOCUMENT")
      [] exc \in FileLoadErrors -> DPE("EXTRACTION_FAILED")
      [] OTHER -> RawExc(exc)

\* Step 5: the except clause around split
SplitHandler(exc) ==
    IF exc = "ValueError" THEN DPE("INSUFFICIENT_CONTENT") ELSE RawExc(exc)

\* Step 6: the except clauses around embed_texts
EmbedHandler(exc) ==
    CASE exc = "ValueError" -> DPE("EMBEDDING_FAILED")
      [] exc = "RuntimeError" -> DPE("EMBEDDING_SERVICE_ERROR")
      [] OTHER -> RawExc(exc)

\* Step 7: the except clause around _prepare_vectors and upsert_vectors
StoreHandler(exc) ==
    IF exc = "RuntimeError" THEN DPE("PINECONE_SERVICE_ERROR") ELSE RawExc(exc)

\* a variant without the final except Exception clause
OuterHandlerNoCatchAll(e) == e

\* The except clauses that close the try block of process_document: a
\* DocumentProcessingError is re-raised, anything else becomes UNKNOWN_ERROR
OuterHandler(e) ==
    IF e.type = "DocumentProcessingError" THEN e ELSE DPE("UNKNOWN_ERROR")

\* a variant whose length gate is off by a factor of ten
TextCheckLowGate(clean) ==
    IF ~Truthy(clean) THEN "EMPTY_DOCUMENT"
    ELSE IF TLen(clean) < 5 THEN "INSUFFICIENT_CONTENT"
    ELSE "pass"

\* a variant that tests the length first
TextCheckSwapped(clean) ==
    IF TLen(clean) < MinCleanLength THEN "INSUFFICIENT_CONTENT"
    ELSE IF ~Truthy(clean) THEN "EMPTY_DOCUMENT"
    ELSE "pass"

\* Step 4 on the stripped text: the code of the gate that stops it, or "pass"
TextCheckGate(clean) ==
    IF ~Truthy(clean) THEN "EMPTY_DOCUMENT"
    ELSE IF TLen(clean) < MinCleanLength THEN "INSUFFICIENT_CONTENT"
    ELSE "pass"

\* ------------------------------------------------------------------ state
Reqs == 1..MaxReq
\* uuid4 values are modelled by the order in which they are drawn
DocIds == 1..MaxReq

VARIABLES
    pc,             \* [Reqs -> step of the request]
    req,            \* [Reqs -> the upload: file_name, file, user_id, via]
    document_id,    \* [Reqs -> id drawn by process_document, 0 before]
    next_uuid,      \* the next id _generate_document_id hands out
    upload_dir,     \* [DocIds -> the directory UPLOAD_DIR/<document_id>]
    index,          \* the records of the vector index
    text,           \* [Reqs -> text returned by FileLoader.load]
    clean_text,     \* [Reqs -> clean_text of Step 4]
    chunks,         \* [Reqs -> chunks after the blank filter]
    embeddings,     \* [Reqs -> result of embed_texts]
    upsert_i,       \* [Reqs -> loop variable i of upsert_vectors]
    outcome,        \* [Reqs -> what process_document returned or raised]
    response,       \* [Reqs -> JSON response of the upload route]
    steps,          \* [Reqs -> the pipeline steps executed so far, in order]
    calls,          \* [Reqs -> number of calls made to each collaborator]
    ld_in,          \* argument of a direct FileLoader.load call
    ld_out,         \* its result
    scope,          \* which requests the specification offers
    ask,            \* the last call of RAGService.ask_question and its result
    del,            \* the delete_document call that raised
    deleted,        \* the delete_document calls that returned
    up_in,          \* argument of a direct PineconeService.upsert_vectors call
    up_i,           \* its loop variable i
    up_sent,        \* the batches it handed to Index.upsert, in order
    up_out,         \* its result
    em_in,          \* argument of a direct EmbeddingService call
    em_out,         \* its result
    ls_in,          \* argument of a direct list_documents_for_user call
    ls_out,         \* its result
    prov,           \* the run of PineconeService._ensure_index_exists
    st_in,          \* argument of a direct call of one PDF stage
    st_out,         \* its result
    sp_in,          \* arguments of a TextSplitter construction
    sp_out          \* the splitter constructed

\* The largest number of describe_index calls followed
MaxPolls == 70

\* The variables of the list and provisioning calls
\* The variables of the stage calls and of the splitter construction
unit_vars == << st_in, st_out, sp_in, sp_out >>

more_vars == << ls_in, ls_out, prov, unit_vars >>

aux_vars == << scope, ask, del, deleted, up_in, up_i, up_sent, up_out, em_in, em_out,
              more_vars >>

vars == << pc, req, document_id, next_uuid, upload_dir, index, text, clean_text,
           chunks, embeddings, upsert_i, outcome, response, steps, calls,
           ld_in, ld_out, aux_vars >>

pipeline_vars == << pc, req, document_id, next_uuid, upload_dir, index, text,
                    clean_text, chunks, embeddings, upsert_i, outcome, response,
                    steps, calls >>

NoDir == [exists |-> FALSE, files |-> {}]
NoReq == [file_name |-> <<>>, file |-> TxtEmpty, user_id |-> "-", via |-> "-"]
NoOutcome ==
    [kind |-> "none", exc |-> "none", code |-> "-", cause |-> "none",
     document_id |-> 0, file_name |-> <<>>, num_chunks |-> 0, total_characters |-> 0]
NoResponse == [sent |-> FALSE, success |-> FALSE, error_code |-> "-"]
NoCalls ==
    [save |-> 0, load |-> 0, split |-> 0, embed_texts |-> 0,
     upsert_vectors |-> 0, index_upsert |-> 0, delete_file |-> 0,
     rmtree_errors |-> 0, split_returned |-> 0, split_blank |-> 0]
NoLoadArg == [file_name |-> <<>>, exists |-> FALSE, is_file |-> FALSE, file |-> TxtEmpty]
NoLoadResult ==
    [called |-> FALSE, ok |-> FALSE, text |-> EmptyText, exc |-> "none", ran |-> <<>>,
     msg |-> <<>>]
NoAskCalls == [embed_text |-> 0, query |-> 0, llm |-> 0]
NoAsk ==
    [called |-> FALSE, question |-> [n |-> 0, text |-> EmptyText], user_id |-> "-", document_id |-> 0,
     deleted_before |-> FALSE, kind |-> "none", exc |-> "none", answer |-> EmptyText,
     sources |-> <<>>, num_sources |-> 0, matches |-> <<>>, context |-> <<>>,
     calls |-> NoAskCalls,
     response |-> [success |-> FALSE, error_code |-> "-",
                   message |-> [by |-> "-", about |-> "-"]]]
NoDel ==
    [called |-> FALSE, user_id |-> "-", document_id |-> 0, kind |-> "none",
     exc |-> "none", delete_by_document |-> 0, delete_file |-> 0, rmtree_errors |-> 0]
NoUpsertResult == [called |-> FALSE, ok |-> FALSE, count |-> 0, exc |-> "none"]
NoEmbedArg == [fn |-> "-", texts |-> <<>>, model_ok |-> TRUE]
NoEmbedResult ==
    [called |-> FALSE, ok |-> FALSE, vectors |-> <<>>, exc |-> "none",
     model_calls |-> 0, model_in |-> <<>>]

NoListArg == [user_id |-> "-", records |-> <<>>, backend_ok |-> TRUE]
NoListResult == [called |-> FALSE, ok |-> FALSE, documents |-> <<>>, exc |-> "none"]
NoProvisioning ==
    [at |-> "off", exists |-> FALSE, ready_after |-> 0,
     created |-> 0, polls |-> 0, slept |-> 0, waited |-> 0, warned |-> FALSE]

NoStageArg == [stage |-> 0, pages |-> <<>>, fault |-> "none"]
NoStageResult == [called |-> FALSE, exc |-> "none", pages_text |-> <<>>, text |-> EmptyText]
\* An optional int argument: omitted (None), or the value given
Omitted == [given |-> FALSE, value |-> 0]
Given(n) == [given |-> TRUE, value |-> n]
NoSplitterArg == [chunk_size |-> Omitted, chunk_overlap |-> Omitted]
NoSplitter == [called |-> FALSE, exc |-> "none", chunk_size |-> 0, chunk_overlap |-> 0]

\* No stage has been called and no splitter constructed
InitUnit ==
    /\ st_in = NoStageArg
    /\ st_out = NoStageResult
    /\ sp_in = NoSplitterArg
    /\ sp_out = NoSplitter

\* Nothing has been listed or provisioned
InitMore ==
    /\ ls_in = NoListArg
    /\ ls_out = NoListResult
    /\ prov = NoProvisioning
    /\ InitUnit

\* Nothing has been asked, deleted, or called directly
InitAux ==
    /\ ask = NoAsk
    /\ del = NoDel
    /\ deleted = {}
    /\ up_in = <<>>
    /\ up_i = 0
    /\ up_sent = <<>>
    /\ up_out = NoUpsertResult
    /\ em_in = NoEmbedArg
    /\ em_out = NoEmbedResult
    /\ InitMore

InitPipeline ==
    /\ pc = [r \in Reqs |-> "idle"]
    /\ req = [r \in Reqs |-> NoReq]
    /\ document_id = [r \in Reqs |-> 0]
    /\ next_uuid = 1
    /\ upload_dir = [d \in DocIds |-> NoDir]
    /\ index = {}
    /\ text = [r \in Reqs |-> EmptyText]
    /\ clean_text = [r \in Reqs |-> EmptyText]
    /\ chunks = [r \in Reqs |-> <<>>]
    /\ embeddings = [r \in Reqs |-> <<>>]
    /\ upsert_i = [r \in Reqs |-> 0]
    /\ outcome = [r \in Reqs |-> NoOutcome]
    /\ response = [r \in Reqs |-> NoResponse]
    /\ steps = [r \in Reqs |-> <<>>]
    /\ calls = [r \in Reqs |-> NoCalls]

Init ==
    /\ InitPipeline
    /\ ld_in = NoLoadArg
    /\ ld_out = NoLoadResult
    /\ scope = "ingest"
    /\ InitAux

\* ------------------------------------------------------------ upload route
ALLOWED_EXTENSIONS == { <<"p", "d", "f">>, <<"d", "o", "c", "x">>, <<"t", "x", "t">> }

\* file.filename.rsplit(".", 1)[-1].lower() if "." in file.filename else ""
RouteExt(filename) ==
    LET i == LastIndexOf(filename, ".")
    IN  IF i = 0 THEN <<>> ELSE Lower(SubSeq(filename, i + 1, Len(filename)))

\* a variant of the route without its empty-file check
RouteRejectNoEmptyCheck(up, read_ok, processor_ok) ==
    IF up.file_name = <<>> THEN "INVALID_FILE"
    ELSE IF RouteExt(up.file_name) \notin ALLOWED_EXTENSIONS THEN "UNSUPPORTED_FILE_TYPE"
    ELSE IF ~read_ok THEN "READ_FAILED"
    ELSE IF up.file.size > MAX_FILE_SIZE_MB * 1024 * 1024 THEN "FILE_TOO_LARGE"
    ELSE IF ~processor_ok THEN "SERVICE_UNAVAILABLE"
    ELSE "pass"

\* upload_document up to the call of process_document: the error_code of the
\* check that rejects the upload, or "pass"
RouteReject(up, read_ok, processor_ok) ==
    IF up.file_name = <<>> THEN "INVALID_FILE"
    ELSE IF RouteExt(up.file_name) \notin ALLOWED_EXTENSIONS THEN "UNSUPPORTED_FILE_TYPE"
    ELSE IF ~read_ok THEN "READ_FAILED"
    ELSE IF up.file.size = 0 THEN "EMPTY_FILE"
    ELSE IF up.file.size > MAX_FILE_SIZE_MB * 1024 * 1024 THEN "FILE_TOO_LARGE"
    ELSE IF ~processor_ok THEN "SERVICE_UNAVAILABLE"
    ELSE "pass"

\* upload_document after process_document: the JSON body it answers with
RouteResponse(out) ==
    IF out.kind = "return"
    THEN [sent |-> TRUE, success |-> TRUE, error_code |-> "-"]
    ELSE IF out.exc = "DocumentProcessingError"
    THEN [sent |-> TRUE, success |-> FALSE, error_code |-> out.code]
    ELSE [sent |-> TRUE, success |-> FALSE, error_code |-> "UNKNOWN_ERROR"]

\* The user_message of the DocumentProcessingError behind an error body of
\* the upload route: str(e) of the FileLoadError for the codes of Step 1 and
\* Step 3, whose texts file_loader.py writes itself, else a literal
UploadMessage(out) ==
    IF out.code \in { "UNSUPPORTED_FILE_TYPE", "PASSWORD_PROTECTED", "CORRUPTED_FILE",
                      "EMPTY_DOCUMENT", "EXTRACTION_FAILED" }
    THEN [by |-> "app", about |-> "str(e) of a FileLoadError"]
    ELSE [by |-> "app", about |-> out.code]

\* a variant that hands out one and the same id
generate_document_id_same(drawn) == 1

\* DocumentProcessor._generate_document_id: str(uuid.uuid4()), a value that
\* was not handed out before; drawn counts the values handed out
generate_document_id(drawn) == drawn

\* What the file system does to _save_file
SaveBehaviours == { "ok", "mkdir_fails", "open_fails", "write_fails" }

\* What a request slot draws from.  The first request takes every upload, by
\* the route or directly, and meets every behaviour of the collaborators; the
\* requests beside it are direct calls with healthy collaborators.
\* With scope "lifecycle" the requests are healthy ingestions that run one
\* after the other, to be asked about and deleted.
Faulty(r) == r = 1 /\ scope = "ingest"
UploadsOf(r) ==
    IF scope = "lifecycle"
    THEN (IF r = 1 THEN LifecycleUploads ELSE { Up(NameTxt, Txt80) })
    ELSE IF scope = "concurrent" THEN ConcurrentUploads
    ELSE IF r = 1 THEN Uploads ELSE OtherUploads
RouteUploadsOf(r) == IF Faulty(r) THEN Uploads \cup RouteOnlyUploads ELSE {}
UsersOf(r) ==
    IF r = 1 \/ scope = "concurrent" THEN {"u1"}
    ELSE IF scope = "lifecycle" THEN Users ELSE {"u2"}
SaveBehavioursOf(r) == IF Faulty(r) THEN SaveBehaviours ELSE {"ok"}
SplitBehavioursOf(r) == IF Faulty(r) THEN SplitBehaviours ELSE {"normal"}
BackendAnswersOf(r) == IF Faulty(r) THEN BOOLEAN ELSE {TRUE}
RmtreeAnswersOf(r) == IF Faulty(r) THEN BOOLEAN ELSE {TRUE}
\* The embedding model may also fail the first ingestion of a lifecycle
ModelAnswersOf(r) ==
    IF Faulty(r) \/ (scope = "lifecycle" /\ r = 1) THEN BOOLEAN ELSE {TRUE}
Settled(r) == pc[r] \in { "idle", "rejected", "done", "failed" }
\* A question and a deletion that fails change nothing: a behaviour is
\* followed up to the first of them.
Open == ~ask.called /\ del.kind # "raise"
MayStart(r) ==
    /\ pc[r] = "idle"
    /\ Open
    /\ IF r = 1 THEN TRUE
       ELSE IF scope = "lifecycle" THEN Settled(r - 1) /\ pc[r - 1] # "idle"
       ELSE pc[r - 1] # "idle"

\* POST /api/v1/upload: the checks of upload_document, then the call of
\* process_document, which draws the document id
UploadDocument(r) ==
    /\ MayStart(r)
    /\ \E up \in RouteUploadsOf(r),
          u \in UsersOf(r), read_ok \in BOOLEAN, processor_ok \in BOOLEAN :
         LET code == RouteReject(up, read_ok, processor_ok)
         IN  /\ req' = [req EXCEPT ![r] = [file_name |-> up.file_name, file |-> up.file,
                                           user_id |-> u, via |-> "route"]]
             /\ IF code # "pass"
                THEN /\ pc' = [pc EXCEPT ![r] = "rejected"]
                     /\ response' = [response EXCEPT ![r] =
                            [sent |-> TRUE, success |-> FALSE, error_code |-> code]]
                     /\ UNCHANGED << document_id, next_uuid >>
                ELSE /\ pc' = [pc EXCEPT ![r] = "validate"]
                     /\ document_id' = [document_id EXCEPT ![r] = generate_document_id(next_uuid)]
                     /\ next_uuid' = next_uuid + 1
                     /\ UNCHANGED response
    /\ UNCHANGED << upload_dir, index, text, clean_text, chunks, embeddings,
                    upsert_i, outcome, steps, calls, ld_in, ld_out, aux_vars >>

\* A direct call of DocumentProcessor.process_document
CallProcessDocument(r) ==
    /\ MayStart(r)
    /\ \E up \in UploadsOf(r), u \in UsersOf(r) :
         req' = [req EXCEPT ![r] = [file_name |-> up.file_name, file |-> up.file,
                                    user_id |-> u, via |-> "direct"]]
    /\ pc' = [pc EXCEPT ![r] = "validate"]
    /\ document_id' = [document_id EXCEPT ![r] = generate_document_id(next_uuid)]
    /\ next_uuid' = next_uuid + 1
    /\ UNCHANGED << upload_dir, index, text, clean_text, chunks, embeddings,
                    upsert_i, outcome, response, steps, calls, ld_in, ld_out, aux_vars >>

\* ------------------------------------------------------- process_document
\* process_document raises e; cause is the type of the exception that was
\* caught and logged on the way
Raised(e, cause) ==
    [NoOutcome EXCEPT !.kind = "raise", !.exc = e.type, !.code = e.code,
                      !.cause = cause]

\* The request ends with out; a request that came through the route is
\* answered in the same step.
Finish(r, out, to) ==
    /\ pc' = [pc EXCEPT ![r] = to]
    /\ outcome' = [outcome EXCEPT ![r] = out]
    /\ response' = [response EXCEPT ![r] =
            IF req[r].via = "route" THEN RouteResponse(out) ELSE @]

\* DocumentProcessor._delete_file: shutil.rmtree(doc_dir, ignore_errors=True)
\* of a directory that exists; rm_ok is whether the file system lets the tree go
delete_file(dir, d, rm_ok) ==
    IF dir[d].exists /\ rm_ok THEN [dir EXCEPT ![d] = NoDir] ELSE dir

\* the call record after _delete_file
AfterDelete(c, dir, d, rm_ok) ==
    [c EXCEPT !.delete_file = @ + 1,
              !.rmtree_errors = IF dir[d].exists /\ ~rm_ok THEN @ + 1 ELSE @]

\* a variant of the failure path that logs the exception and carries on
AbortSwallowed(r, e, c) ==
    /\ upload_dir' = delete_file(upload_dir, document_id[r], TRUE)
    /\ calls' = [calls EXCEPT ![r] = AfterDelete(c, upload_dir, document_id[r], TRUE)]
    /\ UNCHANGED << pc, outcome, response >>

\* a variant of the failure path that leaves the saved file in place
AbortNoCleanup(r, e, c) ==
    /\ Finish(r, Raised(OuterHandler(e), e.type), "failed")
    /\ calls' = [calls EXCEPT ![r] = c]
    /\ UNCHANGED upload_dir

\* An exception e raised inside the try block of process_document: the saved
\* directory is deleted, then the exception leaves as OuterHandler maps it.
\* c is the call record of the step that failed.
Abort(r, e, c) ==
    /\ Finish(r, Raised(OuterHandler(e), e.type), "failed")
    /\ \E rm_ok \in RmtreeAnswersOf(r) :
         /\ upload_dir' = delete_file(upload_dir, document_id[r], rm_ok)
         /\ calls' = [calls EXCEPT ![r] =
                AfterDelete(c, upload_dir, document_id[r], rm_ok)]

Step(r, name) == steps' = [steps EXCEPT ![r] = Append(@, name)]

\* Step 1
Validate(r) ==
    /\ pc[r] = "validate"
    /\ Step(r, "Validate")
    /\ IF ~validate_extension(req[r].file_name).ok
       THEN Finish(r, Raised(DPE("UNSUPPORTED_FILE_TYPE"), "UnsupportedFileTypeError"), "failed")
       ELSE /\ pc' = [pc EXCEPT ![r] = "save"]
            /\ UNCHANGED << outcome, response >>
    /\ UNCHANGED << req, document_id, next_uuid, upload_dir, index, text, clean_text,
                    chunks, embeddings, upsert_i, calls, ld_in, ld_out, aux_vars >>

\* DocumentProcessor._save_file: mkdir of the document directory, then
\* write_bytes of the base name; the directory as it is left
save_file(dir, d, file_name, fs) ==
    CASE fs = "mkdir_fails" -> dir
      [] fs = "open_fails" -> [dir EXCEPT ![d] = [exists |-> TRUE, files |-> {}]]
      [] OTHER -> [dir EXCEPT ![d] = [exists |-> TRUE, files |-> {PathName(file_name)}]]

\* Step 2
SaveFile(r) ==
    /\ pc[r] = "save"
    /\ Step(r, "Save")
    /\ calls' = [calls EXCEPT ![r].save = @ + 1]
    /\ \E fs \in SaveBehavioursOf(r) :
         /\ upload_dir' = save_file(upload_dir, document_id[r], req[r].file_name, fs)
         /\ IF fs # "ok"
            THEN Finish(r, Raised(DPE("SAVE_FAILED"), "OSError"), "failed")
            ELSE /\ pc' = [pc EXCEPT ![r] = "extract"]
                 /\ UNCHANGED << outcome, response >>
    /\ UNCHANGED << req, document_id, next_uuid, index, text, clean_text, chunks,
                    embeddings, upsert_i, ld_in, ld_out, aux_vars >>

\* Step 3
Extract(r) ==
    /\ pc[r] = "extract"
    /\ Step(r, "Extract")
    /\ LET safe_name == PathName(req[r].file_name)
           dir == upload_dir[document_id[r]]
           res == load(safe_name, dir.exists /\ safe_name \in dir.files, TRUE, req[r].file)
           c == [calls[r] EXCEPT !.load = @ + 1]
       IN  IF ~res.ok
           THEN /\ Abort(r, ExtractHandler(res.exc), c)
                /\ UNCHANGED text
           ELSE /\ text' = [text EXCEPT ![r] = res.text]
                /\ pc' = [pc EXCEPT ![r] = "text_check"]
                /\ calls' = [calls EXCEPT ![r] = c]
                /\ UNCHANGED << outcome, response, upload_dir >>
    /\ UNCHANGED << req, document_id, next_uuid, index, clean_text, chunks,
                    embeddings, upsert_i, ld_in, ld_out, aux_vars >>

\* Step 4
TextCheck(r) ==
    /\ pc[r] = "text_check"
    /\ Step(r, "TextCheck")
    /\ LET clean == IF Truthy(text[r]) THEN Strip(text[r]) ELSE EmptyText
           gate == TextCheckGate(clean)
       IN  /\ clean_text' = [clean_text EXCEPT ![r] = clean]
           /\ IF gate # "pass"
              THEN Abort(r, DPE(gate), calls[r])
              ELSE /\ pc' = [pc EXCEPT ![r] = "chunk"]
                   /\ UNCHANGED << outcome, response, upload_dir, calls >>
    /\ UNCHANGED << req, document_id, next_uuid, index, text, chunks, embeddings,
                    upsert_i, ld_in, ld_out, aux_vars >>

\* Step 5
Chunk(r) ==
    /\ pc[r] = "chunk"
    /\ Step(r, "Chunk")
    /\ \E lib \in SplitBehavioursOf(r) :
         LET res == split(clean_text[r], lib)
             kept == NonBlank(res.chunks)
             c == [calls[r] EXCEPT !.split = @ + 1,
                                   !.split_returned = Len(res.chunks),
                                   !.split_blank = Len(res.chunks) - Len(kept)]
         IN  IF ~res.ok
             THEN Abort(r, SplitHandler(res.exc), c) /\ UNCHANGED chunks
             ELSE IF res.chunks = <<>> \/ kept = <<>>
             THEN Abort(r, DPE("EMPTY_CHUNKS"), c) /\ UNCHANGED chunks
             ELSE /\ chunks' = [chunks EXCEPT ![r] = kept]
                  /\ pc' = [pc EXCEPT ![r] = "embed"]
                  /\ calls' = [calls EXCEPT ![r] = c]
                  /\ UNCHANGED << outcome, response, upload_dir >>
    /\ UNCHANGED << req, document_id, next_uuid, index, text, clean_text, embeddings,
                    upsert_i, ld_in, ld_out, aux_vars >>

\* Step 6
Embed(r) ==
    /\ pc[r] = "embed"
    /\ Step(r, "Embed")
    /\ \E model_ok \in ModelAnswersOf(r) :
         LET res == embed_texts(chunks[r], model_ok)
             c == [calls[r] EXCEPT !.embed_texts = @ + 1]
         IN  IF ~res.ok
             THEN Abort(r, EmbedHandler(res.exc), c) /\ UNCHANGED embeddings
             ELSE /\ embeddings' = [embeddings EXCEPT ![r] = res.vectors]
                  /\ pc' = [pc EXCEPT ![r] = "store"]
                  /\ calls' = [calls EXCEPT ![r] = c]
                  /\ UNCHANGED << outcome, response, upload_dir >>
    /\ UNCHANGED << req, document_id, next_uuid, index, text, clean_text, chunks,
                    upsert_i, ld_in, ld_out, aux_vars >>

\* The records Step 7 builds for request r
VectorsOf(r) ==
    prepare_vectors(chunks[r], embeddings[r], req[r].user_id, document_id[r],
                    req[r].file_name)

\* Step 7, one pass of the loop of upsert_vectors: the batch that starts at
\* upsert_i is sent to the index; a failing call raises RuntimeError and no
\* later batch is sent
StoreBatch(r) ==
    /\ pc[r] = "store"
    /\ upsert_i[r] < Len(VectorsOf(r))
    /\ steps' = [steps EXCEPT ![r] = IF upsert_i[r] = 0 THEN Append(@, "Store") ELSE @]
    /\ \E backend_ok \in BackendAnswersOf(r) :
         LET c == [calls[r] EXCEPT !.upsert_vectors = 1, !.index_upsert = @ + 1]
         IN  IF ~backend_ok
             THEN Abort(r, StoreHandler("RuntimeError"), c) /\ UNCHANGED << index, upsert_i >>
             ELSE /\ index' = IndexUpsert(index, Batch(VectorsOf(r), upsert_i[r]))
                  /\ upsert_i' = [upsert_i EXCEPT ![r] = @ + batch_size]
                  /\ calls' = [calls EXCEPT ![r] = c]
                  /\ UNCHANGED << pc, outcome, response, upload_dir >>
    /\ UNCHANGED << req, document_id, next_uuid, text, clean_text, chunks, embeddings,
                    ld_in, ld_out, aux_vars >>

\* Step 7 after the last batch, and the result of process_document
Complete(r) ==
    /\ pc[r] = "store"
    /\ upsert_i[r] >= Len(VectorsOf(r))
    /\ steps' = [steps EXCEPT ![r] =
            (IF upsert_i[r] = 0 THEN Append(@, "Store") ELSE @) \o <<"Complete">>]
    /\ calls' = [calls EXCEPT ![r].upsert_vectors = 1]
    /\ Finish(r, [kind |-> "return", exc |-> "none", code |-> "-", cause |-> "none",
                  document_id |-> document_id[r], file_name |-> req[r].file_name,
                  num_chunks |-> Len(chunks[r]),
                  total_characters |-> TLen(clean_text[r])], "done")
    /\ UNCHANGED << req, document_id, next_uuid, upload_dir, index, text, clean_text,
                    chunks, embeddings, upsert_i, ld_in, ld_out, aux_vars >>

\* ------------------------------------------------- direct FileLoader.load
\* The arguments of the direct calls: every upload as a stored file, as a
\* missing path and as a path that is not a regular file
\* stage 1 reads 49 characters between white space, stage 2 reads 50
PdfBoundary ==
    PdfFile(900, "ok", Stage1(<<Pg(Txt(2, 49, 2))>>),
            Stage2(<<Pg2(Txt(1, 50, 1), <<>>)>>), Stage3(<<Pg(Txt(0, 80, 0))>>))

\* scanned documents whose OCR fails: at rasterisation, and after it
PdfScannedNoRaster ==
    PdfFile(900, "ok", Stage1(<<Pg(EmptyText)>>), Stage2(<<Pg2(Blank, <<>>)>>), Stage3Fails)
PdfScannedOcrBreaks ==
    PdfFile(900, "ok", Stage1(<<Pg(Txt(0, 49, 0))>>), Stage2Fails, Stage3Breaks)

\* TXT files whose bytes are not valid UTF-8: the one byte A0, a no-break
\* space in Latin-1 and in Windows-1252; the one byte 85, the control NEL
\* in Latin-1, which strip() removes, and an ellipsis in Windows-1252
TxtNoBreakSpace ==
    [size |-> 1, read_bytes_error |-> FALSE,
     dec |-> [e \in {"utf-8", "utf-8-sig", "latin-1", "cp1252"} |->
                IF e \in {"utf-8", "utf-8-sig"} THEN DecodeError ELSE Dec(Txt(1, 0, 0))]]
TxtNextLine ==
    [size |-> 1, read_bytes_error |-> FALSE,
     dec |-> [e \in {"utf-8", "utf-8-sig", "latin-1", "cp1252"} |->
                IF e \in {"utf-8", "utf-8-sig"} THEN DecodeError
                ELSE IF e = "latin-1" THEN Dec(Txt(1, 0, 0)) ELSE Dec(Txt(0, 1, 0))]]
\* a UTF-8 text behind a byte order mark: UTF-8 keeps the mark as a character
TxtByteOrderMark ==
    [size |-> 63, read_bytes_error |-> FALSE,
     dec |-> [e \in {"utf-8", "utf-8-sig", "latin-1", "cp1252"} |->
                IF e = "utf-8" THEN Dec(Txt(0, 61, 0))
                ELSE IF e = "utf-8-sig" THEN Dec(Txt(0, 60, 0)) ELSE Dec(Txt(0, 63, 0))]]

\* paragraphs and two tables: 40, 30, a row of 20 + 1 + 30, a row of 7,
\* a row of 5 + 1 + 6; a paragraph, a row and a cell are empty
DocxMixed ==
    DocxFile(700, "ok", <<Txt(0, 40, 0), Blank, Txt(1, 30, 0)>>,
             << << <<Txt(0, 20, 0), Blank, Txt(1, 30, 1)>>, <<Blank>>, <<Txt(0, 7, 0)>> >>,
                << <<Txt(0, 5, 0), Txt(0, 6, 2)>> >> >>)

\* Files handed to load directly only
LoadOnlyUploads ==
    { Up(NamePdf, PdfBoundary), Up(NamePdf, PdfScannedNoRaster),
      Up(NamePdf, PdfScannedOcrBreaks), Up(NameTxt, TxtNoBreakSpace),
      Up(NameTxt, TxtNextLine), Up(NameTxt, TxtByteOrderMark),
      Up(NameDocx, DocxMixed) }

LoadArgs ==
    { [file_name |-> up.file_name, exists |-> e[1], is_file |-> e[2], file |-> up.file] :
        up \in Uploads \cup LoadOnlyUploads, e \in { <<TRUE, TRUE>>, <<FALSE, FALSE>>, <<TRUE, FALSE>> } }

InitLoad ==
    /\ InitPipeline
    /\ ld_in \in LoadArgs
    /\ ld_out = NoLoadResult
    /\ scope = "load"
    /\ InitAux

\* FileLoader.load(ld_in)
CallLoad ==
    /\ ~ld_out.called
    /\ LET res == load(ld_in.file_name, ld_in.exists, ld_in.is_file, ld_in.file)
       IN  ld_out' = [called |-> TRUE, ok |-> res.ok, text |-> res.text,
                      exc |-> res.exc, ran |-> res.ran, msg |-> res.msg]
    /\ UNCHANGED << pipeline_vars, ld_in, aux_vars >>

NextLoad == CallLoad

SpecLoad == InitLoad /\ [][NextLoad]_vars

Next ==
    \E r \in Reqs :
        \/ UploadDocument(r)
        \/ CallProcessDocument(r)
        \/ Validate(r)
        \/ SaveFile(r)
        \/ Extract(r)
        \/ TextCheck(r)
        \/ Chunk(r)
        \/ Embed(r)
        \/ StoreBatch(r)
        \/ Complete(r)

Spec == Init /\ [][Next]_vars

\* ------------------------------------------------------------ RAG service
\* A question: its text and, for the embedding model, which question it is
Q(n, t) == [n |-> n, text |-> t]
Questions == { Q(0, EmptyText), Q(0, Txt(3, 0, 0)), Q(1, Txt(0, 20, 0)), Q(2, Txt(1, 30, 0)) }

\* EmbeddingService.embed_text; model_ok tells whether aembed_query answers
embed_text(t, model_ok) ==
    IF ~Truthy(t.text) \/ ~Truthy(Strip(t.text)) THEN EmbRaise("ValueError")
    ELSE IF ~model_ok THEN EmbRaise("RuntimeError")
    ELSE EmbOk(Embedding(t, 1))

\* The cosine score the index gives record v for a query vector, in units of
\* 0.00001: the first question ranks the chunks of a document in their order,
\* any other question in another order
Score(query_vector, v) ==
    LET first == query_vector.of.n = 1
        slot == (v.metadata.chunk_index * (IF first THEN 1 ELSE 3)
                    + (IF first THEN 0 ELSE 2)) % 7
    IN  98768 - 1234 * slot

QueryOk(ms) == [ok |-> TRUE, matches |-> ms, exc |-> "none"]
QueryRaise(x) == [ok |-> FALSE, matches |-> <<>>, exc |-> x]

\* a variant whose filter names the document only
query_any_user(idx, query_vector, top_k, filter_dict, backend_ok) ==
    IF ~backend_ok THEN QueryRaise("RuntimeError")
    ELSE LET M == { v \in idx : v.metadata.document_id = filter_dict.document_id }
             Rank(v) == Cardinality({ w \in M : Score(query_vector, w)
                                                    > Score(query_vector, v) })
             Nth(i) == CHOOSE v \in M : Rank(v) = i - 1
         IN  QueryOk([i \in 1..Min(top_k, Cardinality(M)) |->
                        [id |-> Nth(i).id, score |-> Score(query_vector, Nth(i)),
                         metadata |-> Nth(i).metadata]])

\* PineconeService.query: the top_k records that satisfy the filter, by
\* descending score; every exception of the backend leaves as RuntimeError
query(idx, query_vector, top_k, filter_dict, backend_ok) ==
    IF ~backend_ok THEN QueryRaise("RuntimeError")
    ELSE LET M == { v \in idx : /\ v.metadata.user_id = filter_dict.user_id
                                /\ v.metadata.document_id = filter_dict.document_id }
             Rank(v) == Cardinality({ w \in M : Score(query_vector, w)
                                                    > Score(query_vector, v) })
             Nth(i) == CHOOSE v \in M : Rank(v) = i - 1
         IN  QueryOk([i \in 1..Min(top_k, Cardinality(M)) |->
                        [id |-> Nth(i).id, score |-> Score(query_vector, Nth(i)),
                         metadata |-> Nth(i).metadata]])

\* round(score, 4) and the format {score:.4f}, in units of 0.0001
Round4(score) == (score + 5) \div 10

\* a variant that lists the sources by their place in the document
BuildSourcesByChunk(matches) ==
    LET Nth(i) == CHOOSE k \in 1..Len(matches) :
                      Cardinality({ j \in 1..Len(matches) :
                          matches[j].metadata.chunk_index
                              < matches[k].metadata.chunk_index }) = i - 1
    IN  [i \in 1..Len(matches) |->
            [chunk_index |-> matches[Nth(i)].metadata.chunk_index,
             text |-> matches[Nth(i)].metadata.text,
             relevance_score |-> Round4(matches[Nth(i)].score),
             file_name |-> matches[Nth(i)].metadata.file_name]]

\* ask_question, Step 3: the sources list
BuildSources(matches) ==
    [i \in 1..Len(matches) |->
        [chunk_index |-> matches[i].metadata.chunk_index,
         text |-> matches[i].metadata.text,
         relevance_score |-> Round4(matches[i].score),
         file_name |-> matches[i].metadata.file_name]]

\* ask_question, Step 3: the segments of the context, which are joined with
\* the separator line
BuildContext(matches) ==
    [i \in 1..Len(matches) |->
        [source |-> i, chunk |-> matches[i].metadata.chunk_index,
         relevance |-> Round4(matches[i].score),
         text |-> matches[i].metadata.text]]

\* What chain.ainvoke may do: answer, or raise
LlmBehaviours == { "answers", "RuntimeError", "ValueError", "TimeoutError" }
\* What the collaborators of one ask_question call do: all answer, or one of
\* them fails
AskFaults ==
    { [embed_ok |-> TRUE, store_ok |-> TRUE, llm |-> l] : l \in LlmBehaviours }
    \cup { [embed_ok |-> FALSE, store_ok |-> TRUE, llm |-> "answers"],
           [embed_ok |-> TRUE, store_ok |-> FALSE, llm |-> "answers"] }
\* the text the generation model answers with, and the fixed sentence
LlmAnswer == Txt(1, 40, 2)
NotFound == Txt(0, 42, 0)

\* The text of an exception: written in this code base, or the text a
\* library, a backend or the file system gave its own exception
AppText(about) == [by |-> "app", about |-> about]
ForeignText == [by |-> "library", about |-> "str(e)"]
NoText == [by |-> "-", about |-> "-"]

\* str(e) of the exception that leaves ask_question: the blank check raises
\* before any call with its own text; a ValueError of a later call passes
\* unchanged, and the RuntimeError built from any other failure quotes str(e)
AskExcText(kind, made) ==
    IF kind # "raise" THEN NoText
    ELSE IF made = NoAskCalls THEN AppText("Question cannot be empty.")
    ELSE ForeignText

AskResult(kind, exc, answer, sources, matches, context, made) ==
    [kind |-> kind, exc |-> exc, answer |-> answer, sources |-> sources,
     num_sources |-> Len(sources), matches |-> matches, context |-> context,
     calls |-> made, message |-> AskExcText(kind, made)]

\* The ask_question route after RAGService.ask_question: the error body
QueryResponse(res) ==
    IF res.kind = "return"
    THEN [success |-> TRUE, error_code |-> "-", message |-> NoText]
    ELSE IF res.exc = "ValueError"
    THEN [success |-> FALSE, error_code |-> "INVALID_REQUEST", message |-> res.message]
    ELSE IF res.exc = "RuntimeError"
    THEN [success |-> FALSE, error_code |-> "RAG_PIPELINE_FAILED",
          message |-> AppText("Failed to process your question. Please try again.")]
    ELSE [success |-> FALSE, error_code |-> "UNKNOWN_ERROR",
          message |-> AppText("An unexpected error occurred while processing your question.")]
AskRaise(x, matches, context, made) ==
    AskResult("raise", x, EmptyText, <<>>, matches, context, made)

\* the handlers that close the try block of ask_question
AskHandler(exc) == IF exc = "ValueError" THEN "ValueError" ELSE "RuntimeError"

\* a variant that sends an empty context to the generation model
AskNoMatchCallsModel(made) ==
    AskResult("return", "none", Strip(LlmAnswer), <<>>, <<>>, <<>>,
              [made EXCEPT !.llm = @ + 1])

\* ask_question when the query returned no match
AskNoMatch(made) == AskResult("return", "none", NotFound, <<>>, <<>>, <<>>, made)

\* RAGService.ask_question
ask_question(question, user_id, doc_id, idx, embed_ok, store_ok, llm) ==
    IF ~Truthy(question.text) \/ ~Truthy(Strip(question.text))
    THEN AskRaise("ValueError", <<>>, <<>>, NoAskCalls)
    ELSE
    LET e == embed_text(question, embed_ok)
        c1 == [NoAskCalls EXCEPT !.embed_text = 1]
    IN  IF ~e.ok THEN AskRaise(AskHandler(e.exc), <<>>, <<>>, c1)
        ELSE
        LET m == query(idx, e.vectors, TOP_K,
                       [user_id |-> user_id, document_id |-> doc_id], store_ok)
            c2 == [c1 EXCEPT !.query = 1]
        IN  IF ~m.ok THEN AskRaise(AskHandler(m.exc), <<>>, <<>>, c2)
            ELSE IF m.matches = <<>> THEN AskNoMatch(c2)
            ELSE
            LET sources == BuildSources(m.matches)
                context == BuildContext(m.matches)
                c3 == [c2 EXCEPT !.llm = 1]
            IN  IF llm # "answers"
                THEN AskRaise(AskHandler(llm), m.matches, context, c3)
                ELSE AskResult("return", "none", Strip(LlmAnswer), sources,
                               m.matches, context, c3)

\* a variant that removes only the first chunk of the document
IndexDeleteFirstChunk(idx, user_id, doc_id) ==
    { v \in idx : ~(/\ v.metadata.user_id = user_id
                    /\ v.metadata.document_id = doc_id
                    /\ v.metadata.chunk_index = 0) }

\* Index.delete(filter={"user_id": ..., "document_id": ...})
IndexDelete(idx, user_id, doc_id) ==
    { v \in idx : ~(/\ v.metadata.user_id = user_id
                    /\ v.metadata.document_id = doc_id) }

\* No ingestion is under way
Quiet == \A r \in Reqs : Settled(r)

\* DocumentProcessor.delete_document(user_id, d): delete_by_document, which
\* raises RuntimeError when the backend fails, and then _delete_file.  A
\* document id is deleted successfully at most once in a behaviour.
DeleteDocument ==
    /\ scope = "lifecycle"
    /\ Quiet
    /\ Open
    /\ \E u \in Users, d \in 1..(next_uuid - 1),
          store_ok \in BOOLEAN, rm_ok \in BOOLEAN :
         LET called == [NoDel EXCEPT !.called = TRUE, !.user_id = u,
                                     !.document_id = d, !.delete_by_document = 1]
             failed_rm == upload_dir[d].exists /\ ~rm_ok
         IN  /\ ~\E e \in deleted : e.document_id = d
             /\ IF ~store_ok
                THEN /\ del' = [called EXCEPT !.kind = "raise", !.exc = "RuntimeError"]
                     /\ UNCHANGED << index, upload_dir, deleted >>
                ELSE /\ index' = IndexDelete(index, u, d)
                     /\ upload_dir' = delete_file(upload_dir, d, rm_ok)
                     /\ deleted' = deleted \cup
                            { [user_id |-> u, document_id |-> d,
                               rmtree_error |-> failed_rm] }
                     /\ UNCHANGED del
    /\ UNCHANGED << pc, req, document_id, next_uuid, text, clean_text, chunks,
                    embeddings, upsert_i, outcome, response, steps, calls,
                    ld_in, ld_out, scope, ask, up_in, up_i, up_sent, up_out,
                    em_in, em_out, more_vars >>

\* RAGService.ask_question(q, u, d)
AskQuestion ==
    /\ scope = "lifecycle"
    /\ Quiet
    /\ Open
    /\ \E q \in Questions, u \in Users, d \in DocIds, f \in AskFaults :
         LET res == ask_question(q, u, d, index, f.embed_ok, f.store_ok, f.llm)
         IN  ask' = [called |-> TRUE, question |-> q, user_id |-> u, document_id |-> d,
                     deleted_before |->
                         \E e \in deleted : e.user_id = u /\ e.document_id = d,
                     kind |-> res.kind, exc |-> res.exc, answer |-> res.answer,
                     sources |-> res.sources, num_sources |-> res.num_sources,
                     matches |-> res.matches, context |-> res.context,
                     calls |-> res.calls, response |-> QueryResponse(res)]
    /\ UNCHANGED << pipeline_vars, ld_in, ld_out, scope, del, deleted, up_in, up_i,
                    up_sent, up_out, em_in, em_out, more_vars >>

InitDoc ==
    /\ InitPipeline
    /\ ld_in = NoLoadArg
    /\ ld_out = NoLoadResult
    /\ scope = "lifecycle"
    /\ InitAux

NextDoc ==
    \/ \E r \in Reqs :
          \/ CallProcessDocument(r)
          \/ Validate(r)
          \/ SaveFile(r)
          \/ Extract(r)
          \/ TextCheck(r)
          \/ Chunk(r)
          \/ Embed(r)
          \/ StoreBatch(r)
          \/ Complete(r)
    \/ DeleteDocument
    \/ AskQuestion

SpecDoc == InitDoc /\ [][NextDoc]_vars

\* ================================================================== claims
PipelineSteps ==
    << "Validate", "Save", "Extract", "TextCheck", "Chunk", "Embed", "Store", "Complete" >>

IsPrefix(p, q) == Len(p) <= Len(q) /\ SubSeq(q, 1, Len(p)) = p

\* The records of the index that carry the document id of request r
RecordsOf(r) == { v \in index : v.metadata.document_id = document_id[r] }

\* The names of the modelled uploads and what the extension gate is to make
\* of each: its normalised extension, or nothing
SupportedNames == { NameTxt, NameTxtUpper, NamePdf, NamePdfInDir, NameDocx }
UnsupportedNames == { NameExe, NameNoSuffix, NameDotTxt, NameTxtExe }
ExpectedExt(n) ==
    CASE n \in { NameTxt, NameTxtUpper } -> <<".", "t", "x", "t">>
      [] n \in { NamePdf, NamePdfInDir } -> <<".", "p", "d", "f">>
      [] n = NameDocx -> <<".", "d", "o", "c", "x">>
      [] OTHER -> <<>>

\* C1: the embedding service and the vector store are called, and records of
\* a document are in the index, only for a request whose extracted text is,
\* after trimming, at least 50 characters long.
C1_GateBeforeEmbedding ==
    /\ \A r \in Reqs :
         (calls[r].embed_texts > 0 \/ calls[r].upsert_vectors > 0
            \/ calls[r].index_upsert > 0)
         => (Strip(text[r]).core >= 50 /\ TLen(clean_text[r]) >= 50)
    /\ \A v \in index :
         \E r \in Reqs : /\ document_id[r] = v.metadata.document_id
                         /\ Strip(text[r]).core >= 50

\* a text of exactly 50 characters was embedded and stored
C1_Witness ==
    \E r \in Reqs : /\ Strip(text[r]).core = 50
                    /\ calls[r].embed_texts = 1
                    /\ calls[r].index_upsert = 1
                    /\ RecordsOf(r) # {}

\* C2: FileLoader.load never returns a text whose trimmed length is below 50;
\* it raises EmptyDocumentError instead.
C2_LoadNeverShort ==
    (ld_out.called /\ ld_out.ok) => TLen(Strip(ld_out.text)) >= 50

\* C3: the steps of process_document run in the fixed order, each at most
\* once and none skipped; a request is Complete only after all of them; and
\* once a request has failed it executes no further step and makes no
\* further call.
C3_StepOrder ==
    /\ [](\A r \in Reqs :
            /\ IsPrefix(steps[r], PipelineSteps)
            /\ (pc[r] = "done" <=> steps[r] = PipelineSteps)
            /\ (pc[r] = "failed" => steps[r] # <<>> /\ steps[r] # PipelineSteps))
    /\ [][\A r \in Reqs :
            pc[r] = "failed" =>
                /\ pc'[r] = "failed"
                /\ steps'[r] = steps[r]
                /\ calls'[r] = calls[r]
                /\ outcome'[r] = outcome[r]]_vars

\* one request failed in the Embed step while another one completed
C3_Witness ==
    \E r, q \in Reqs : /\ pc[r] = "failed"
                       /\ steps[r] = SubSeq(PipelineSteps, 1, 6)
                       /\ pc[q] = "done"

\* C4 as stated: when process_document fails in Extract or a later step,
\* the directory saved for its document id is gone when the error leaves.
C4_FailureDeletesArtifact ==
    \A r \in Reqs :
        (outcome[r].kind = "raise" /\ Len(steps[r]) >= 3)
        => ~upload_dir[document_id[r]].exists

\* C4 as amended: when process_document fails in Extract or a later step,
\* _delete_file has been called once on the saved directory before the
\* error leaves, and the directory is gone unless its removal itself failed,
\* which is ignored.
C4_FailureAttemptsDelete ==
    \A r \in Reqs :
        (outcome[r].kind = "raise" /\ Len(steps[r]) >= 3)
        => /\ calls[r].save = 1
           /\ calls[r].delete_file = 1
           /\ upload_dir[document_id[r]].exists <=> calls[r].rmtree_errors = 1

\* a request whose file was saved failed in the Store step and its
\* directory was removed
C4_Witness ==
    \E r \in Reqs : /\ outcome[r].kind = "raise"
                    /\ steps[r] = SubSeq(PipelineSteps, 1, 7)
                    /\ calls[r].save = 1
                    /\ calls[r].delete_file = 1
                    /\ ~upload_dir[document_id[r]].exists

PipelineCodes ==
    { "UNSUPPORTED_FILE_TYPE", "SAVE_FAILED", "PASSWORD_PROTECTED", "CORRUPTED_FILE",
      "EMPTY_DOCUMENT", "EXTRACTION_FAILED", "INSUFFICIENT_CONTENT", "EMPTY_CHUNKS",
      "EMBEDDING_FAILED", "EMBEDDING_SERVICE_ERROR", "PINECONE_SERVICE_ERROR",
      "UNKNOWN_ERROR" }

\* C5: process_document ends by returning a success result or by raising
\* DocumentProcessingError with an error code; an exception that no typed
\* clause anticipates leaves as UNKNOWN_ERROR, and the route answers with the
\* same code.
C5_OnlyTypedErrors ==
    \A r \in Reqs :
        /\ pc[r] = "done" => outcome[r].kind = "return"
        /\ pc[r] = "failed" =>
              /\ outcome[r].kind = "raise"
              /\ outcome[r].exc = "DocumentProcessingError"
              /\ outcome[r].code \in PipelineCodes
              /\ (outcome[r].cause \notin
                      { "DocumentProcessingError", "UnsupportedFileTypeError", "OSError" }
                    => outcome[r].code = "UNKNOWN_ERROR")
              /\ (req[r].via = "route" =>
                    /\ response[r].sent
                    /\ ~response[r].success
                    /\ response[r].error_code = outcome[r].code)

\* the splitting library raised an exception no clause names
C5_Witness ==
    \E r \in Reqs : /\ pc[r] = "failed"
                    /\ outcome[r].cause = "TypeError"
                    /\ outcome[r].code = "UNKNOWN_ERROR"

\* C6 as stated: after a failed ingestion the index holds no record of the
\* document.
C6_NoRecordsAfterFailure ==
    \A r \in Reqs : pc[r] = "failed" => RecordsOf(r) = {}

\* C6 as amended: an ingestion that fails before the Store step leaves no
\* record; one that fails in the Store step leaves exactly the records of the
\* batches sent before the failing call; one that completes has stored every
\* record it built.
C6_RecordsOfBatchesSent ==
    \A r \in Reqs :
        /\ (pc[r] = "failed" /\ outcome[r].code # "PINECONE_SERVICE_ERROR")
              => RecordsOf(r) = {}
        /\ (pc[r] = "failed" /\ outcome[r].code = "PINECONE_SERVICE_ERROR")
              => RecordsOf(r) = { VectorsOf(r)[k] : k \in 1..upsert_i[r] }
        /\ pc[r] = "done"
              => /\ RecordsOf(r) = Range(VectorsOf(r))
                 /\ Cardinality(RecordsOf(r)) = outcome[r].num_chunks

\* the second batch of a document of more than 100 chunks failed
C6_Witness ==
    \E r \in Reqs : /\ pc[r] = "failed"
                    /\ outcome[r].code = "PINECONE_SERVICE_ERROR"
                    /\ Len(chunks[r]) > 100
                    /\ Cardinality(RecordsOf(r)) = 100

\* C7: a request whose file name has an unsupported extension fails in
\* Validate with UNSUPPORTED_FILE_TYPE: no directory is created and nothing
\* is saved, loaded, split, embedded or stored.
C7_UnsupportedBeforeIO ==
    \A r \in Reqs :
        /\ (req[r].file_name \in UnsupportedNames /\ pc[r] \notin {"idle", "validate", "rejected"})
              => /\ pc[r] = "failed"
                 /\ outcome[r].code = "UNSUPPORTED_FILE_TYPE"
        /\ (pc[r] = "failed" /\ outcome[r].code = "UNSUPPORTED_FILE_TYPE")
              => /\ req[r].file_name \in UnsupportedNames
                 /\ steps[r] = <<"Validate">>
                 /\ calls[r] = NoCalls
                 /\ ~upload_dir[document_id[r]].exists
                 /\ RecordsOf(r) = {}

\* the route let a name through that process_document rejects
C7_Witness ==
    \E r \in Reqs : /\ pc[r] = "failed"
                    /\ outcome[r].code = "UNSUPPORTED_FILE_TYPE"
                    /\ req[r].file_name = NameDotTxt
                    /\ req[r].via = "route"

\* C8: validate_extension returns the lower-cased suffix of exactly the names
\* whose suffix is .pdf, .docx or .txt and raises UnsupportedFileTypeError for
\* every other name, and load on an existing file of another name raises it
\* before any parsing step.
C8_ExtensionGate ==
    LET n == ld_in.file_name
        v == validate_extension(n)
    IN  ld_out.called =>
          /\ (n \in SupportedNames => v.ok /\ v.ext = ExpectedExt(n))
          /\ (n \notin SupportedNames => ~v.ok /\ v.exc = "UnsupportedFileTypeError")
          /\ (n \notin SupportedNames /\ ld_in.exists /\ ld_in.is_file)
                => /\ ~ld_out.ok
                   /\ ld_out.exc = "UnsupportedFileTypeError"
                   /\ ld_out.ran = <<>>
          /\ (n \in SupportedNames /\ ld_in.exists /\ ld_in.is_file)
                => ld_out.exc # "UnsupportedFileTypeError"

\* load was called on an existing .exe file
C8_Witness ==
    /\ ld_out.called
    /\ ld_in.file_name = NameExe
    /\ ld_in.exists /\ ld_in.is_file
    /\ ld_out.exc = "UnsupportedFileTypeError"

ZeroByteUpload(r) ==
    /\ req[r].via = "route"
    /\ req[r].file.size = 0
    /\ RouteExt(req[r].file_name) \in ALLOWED_EXTENSIONS
    /\ response[r].sent
    /\ response[r].error_code # "READ_FAILED"

UpsertSizes == { 0, 1, 99, 100, 101, 199, 200, 201, 250, 300, 301 }

\* n records of one document, as _prepare_vectors builds them
UpsertInput(n, doc_id) ==
    LET cs == [k \in 1..n |-> Txt(0, CHUNK_SIZE, 0)]
    IN  prepare_vectors(cs, [k \in 1..n |-> Embedding(cs[k], k)], "u1", doc_id, NameTxt)

UpsertInputs == { UpsertInput(n, d) : n \in UpsertSizes, d \in DocIds }

InitUpsert ==
    /\ InitPipeline
    /\ ld_in = NoLoadArg
    /\ ld_out = NoLoadResult
    /\ scope = "upsert"
    /\ ask = NoAsk
    /\ del = NoDel
    /\ deleted = {}
    /\ up_in \in UpsertInputs
    /\ up_i = 0
    /\ up_sent = <<>>
    /\ up_out = NoUpsertResult
    /\ em_in = NoEmbedArg
    /\ em_out = NoEmbedResult
    /\ InitMore

\* upsert_vectors([]): `if not vectors: return 0`
UpsertNothing ==
    /\ scope = "upsert"
    /\ ~up_out.called
    /\ up_in = <<>>
    /\ up_out' = [called |-> TRUE, ok |-> TRUE, count |-> 0, exc |-> "none"]
    /\ UNCHANGED << pipeline_vars, ld_in, ld_out, scope, ask, del, deleted,
                    up_in, up_i, up_sent, em_in, em_out, more_vars >>

\* One turn of the loop: the slice, the call of Index.upsert, the running
\* total; a failing call leaves through the except clause
UpsertBatch ==
    /\ scope = "upsert"
    /\ ~up_out.called
    /\ up_in # <<>>
    /\ up_i < Len(up_in)
    /\ \E backend_ok \in BOOLEAN :
         LET batch == Batch(up_in, up_i)
         IN  /\ up_sent' = Append(up_sent, batch)
             /\ IF backend_ok
                THEN /\ up_i' = up_i + batch_size
                     /\ up_out' = [up_out EXCEPT !.count = @ + Len(batch)]
                ELSE /\ up_out' = [up_out EXCEPT !.called = TRUE, !.exc = "RuntimeError"]
                     /\ UNCHANGED up_i
    /\ UNCHANGED << pipeline_vars, ld_in, ld_out, scope, ask, del, deleted,
                    up_in, em_in, em_out, more_vars >>

\* `return total_upserted` after the loop
UpsertReturn ==
    /\ scope = "upsert"
    /\ ~up_out.called
    /\ up_in # <<>>
    /\ up_i >= Len(up_in)
    /\ up_out' = [up_out EXCEPT !.called = TRUE, !.ok = TRUE]
    /\ UNCHANGED << pipeline_vars, ld_in, ld_out, scope, ask, del, deleted,
                    up_in, up_i, up_sent, em_in, em_out, more_vars >>

NextUpsert == UpsertNothing \/ UpsertBatch \/ UpsertReturn

SpecUpsert == InitUpsert /\ [][NextUpsert]_vars

\* ------------------------------------------ the embedding service on its own
EmbedTexts == { EmptyText, Blank, Txt(0, 10, 0), Txt(1, 20, 1) }

\* Lists of up to MaxTexts texts for embed_texts, single texts for embed_text
MaxTexts == 3

EmbedArgs ==
    { [fn |-> "embed_texts", texts |-> ts, model_ok |-> b] :
        ts \in UNION { [1..n -> EmbedTexts] : n \in 0..MaxTexts }, b \in BOOLEAN }
    \cup
    { [fn |-> "embed_text", texts |-> << Q(1, t) >>, model_ok |-> b] :
        t \in EmbedTexts, b \in BOOLEAN }

InitEmbed ==
    /\ InitPipeline
    /\ ld_in = NoLoadArg
    /\ ld_out = NoLoadResult
    /\ scope = "embed"
    /\ ask = NoAsk
    /\ del = NoDel
    /\ deleted = {}
    /\ up_in = <<>>
    /\ up_i = 0
    /\ up_sent = <<>>
    /\ up_out = NoUpsertResult
    /\ em_in \in EmbedArgs
    /\ em_out = NoEmbedResult
    /\ InitMore

\* What a call of the service leaves behind: its result, and what the model
\* was given when the call got as far as the model
EmbedResult(res, given) ==
    [called |-> TRUE, ok |-> res.ok, vectors |-> res.vectors, exc |-> res.exc,
     model_calls |-> IF res.exc = "ValueError" THEN 0 ELSE 1,
     model_in |-> IF res.exc = "ValueError" THEN <<>> ELSE given]

\* EmbeddingService.embed_texts(em_in.texts)
CallEmbedTexts ==
    /\ scope = "embed"
    /\ em_in.fn = "embed_texts"
    /\ ~em_out.called
    /\ em_out' = EmbedResult(embed_texts(em_in.texts, em_in.model_ok),
                             NonBlank(em_in.texts))
    /\ UNCHANGED << pipeline_vars, ld_in, ld_out, scope, ask, del, deleted,
                    up_in, up_i, up_sent, up_out, em_in, more_vars >>

\* EmbeddingService.embed_text(em_in.texts[1])
CallEmbedText ==
    /\ scope = "embed"
    /\ em_in.fn = "embed_text"
    /\ ~em_out.called
    /\ LET res == embed_text(em_in.texts[1], em_in.model_ok)
       IN  em_out' = EmbedResult([res EXCEPT !.vectors = IF res.ok THEN << @ >> ELSE <<>>],
                                 << em_in.texts[1].text >>)
    /\ UNCHANGED << pipeline_vars, ld_in, ld_out, scope, ask, del, deleted,
                    up_in, up_i, up_sent, up_out, em_in, more_vars >>

NextEmbed == CallEmbedTexts \/ CallEmbedText

SpecEmbed == InitEmbed /\ [][NextEmbed]_vars


\* ------------------------------------ list_documents_for_user on its own
\* A match of the backend: its metadata may be missing (None), and so may the
\* document_id or the file_name in it ("none"); a document_id may be empty
Match(has_meta, doc_id, file_name) ==
    [has_meta |-> has_meta, document_id |-> doc_id, file_name |-> file_name]

MatchKinds ==
    { Match(FALSE, "none", "none"), Match(TRUE, "none", "a.txt"),
      Match(TRUE, "", "a.txt"), Match(TRUE, "d1", "a.txt"),
      Match(TRUE, "d1", "b.txt"), Match(TRUE, "d1", "none"),
      Match(TRUE, "d2", "a.txt"), Match(TRUE, "d2", "b.txt") }

\* The backend answers with up to MaxMatches matches
MaxMatches == 3

ListArgs ==
    { [user_id |-> "u1", records |-> ms, backend_ok |-> b] :
        ms \in UNION { [1..n -> MatchKinds] : n \in 0..MaxMatches }, b \in BOOLEAN }

\* meta.get("document_id") and meta.get("file_name", "Unknown") of
\* `meta = match.metadata or {}`; "none" stands for None
MetaDocumentId(m) == IF m.has_meta THEN m.document_id ELSE "none"
MetaFileName(m) ==
    IF m.has_meta /\ m.file_name # "none" THEN m.file_name ELSE "Unknown"

SeenIds(seen) == { seen[k].document_id : k \in 1..Len(seen) }

\* a variant in which a later match replaces the entry of its document
SeenAfterKeepsLast(seen, m) ==
    LET doc_id == MetaDocumentId(m)
        entry == [document_id |-> doc_id, file_name |-> MetaFileName(m)]
    IN  IF doc_id \in { "none", "" } THEN seen
        ELSE IF doc_id \in SeenIds(seen)
        THEN [k \in 1..Len(seen) |->
                 IF seen[k].document_id = doc_id THEN entry ELSE seen[k]]
        ELSE Append(seen, entry)

\* One turn of the loop over raw_matches: `if doc_id and doc_id not in seen`;
\* the dict keeps its entries in the order they were first set
SeenAfter(seen, m) ==
    LET doc_id == MetaDocumentId(m)
    IN  IF doc_id \notin { "none", "" } /\ doc_id \notin SeenIds(seen)
        THEN Append(seen, [document_id |-> doc_id, file_name |-> MetaFileName(m)])
        ELSE seen

RECURSIVE SeenOver(_, _)
SeenOver(seen, ms) ==
    IF ms = <<>> THEN seen ELSE SeenOver(SeenAfter(seen, Head(ms)), Tail(ms))

\* PineconeService.list_documents_for_user
list_documents_for_user(ms, backend_ok) ==
    IF ~backend_ok
    THEN [called |-> TRUE, ok |-> FALSE, documents |-> <<>>, exc |-> "RuntimeError"]
    ELSE [called |-> TRUE, ok |-> TRUE, documents |-> SeenOver(<<>>, ms), exc |-> "none"]

InitList ==
    /\ InitPipeline
    /\ ld_in = NoLoadArg
    /\ ld_out = NoLoadResult
    /\ scope = "list"
    /\ ask = NoAsk
    /\ del = NoDel
    /\ deleted = {}
    /\ up_in = <<>>
    /\ up_i = 0
    /\ up_sent = <<>>
    /\ up_out = NoUpsertResult
    /\ em_in = NoEmbedArg
    /\ em_out = NoEmbedResult
    /\ ls_in \in ListArgs
    /\ ls_out = NoListResult
    /\ prov = NoProvisioning
    /\ InitUnit

CallListDocuments ==
    /\ scope = "list"
    /\ ~ls_out.called
    /\ ls_out' = list_documents_for_user(ls_in.records, ls_in.backend_ok)
    /\ UNCHANGED << pipeline_vars, ld_in, ld_out, scope, ask, del, deleted,
                    up_in, up_i, up_sent, up_out, em_in, em_out, ls_in, prov,
                    unit_vars >>

NextList == CallListDocuments

SpecList == InitList /\ [][NextList]_vars

\* --------------------------------------------------- index provisioning
\* max_wait, and the seconds of one time.sleep
max_wait == 120
PollSleep == 2

\* The describe_index call after which the backend first reports ready;
\* 0 when it never does
ReadyAfter == { 0, 1, 2, 3, 59, 60, 61 }

InitProvision ==
    /\ InitPipeline
    /\ ld_in = NoLoadArg
    /\ ld_out = NoLoadResult
    /\ scope = "provision"
    /\ ask = NoAsk
    /\ del = NoDel
    /\ deleted = {}
    /\ up_in = <<>>
    /\ up_i = 0
    /\ up_sent = <<>>
    /\ up_out = NoUpsertResult
    /\ em_in = NoEmbedArg
    /\ em_out = NoEmbedResult
    /\ ls_in = NoListArg
    /\ ls_out = NoListResult
    /\ InitUnit
    /\ \E e \in BOOLEAN, n \in ReadyAfter :
          prov = [NoProvisioning EXCEPT !.at = "list", !.exists = e, !.ready_after = n]

\* a variant whose loop has no time limit
MayPollForever(waited) == TRUE

\* while waited < max_wait
MayPoll(waited) == waited < max_wait

\* list_indexes, and create_index when the name is not among the indexes
ListAndCreate ==
    /\ scope = "provision"
    /\ prov.at = "list"
    /\ prov' = IF prov.exists
               THEN [prov EXCEPT !.at = "returned"]
               ELSE [prov EXCEPT !.at = "poll", !.created = @ + 1, !.waited = 0]
    /\ UNCHANGED << pipeline_vars, ld_in, ld_out, scope, ask, del, deleted,
                    up_in, up_i, up_sent, up_out, em_in, em_out, ls_in, ls_out,
                    unit_vars >>

\* The loop test and describe_index: return when ready, else go to sleep;
\* after the loop the warning, and the normal return
Poll ==
    /\ scope = "provision"
    /\ prov.at = "poll"
    /\ prov' = IF MayPoll(prov.waited)
               THEN LET n == prov.polls + 1
                    IN  IF prov.ready_after # 0 /\ n >= prov.ready_after
                        THEN [prov EXCEPT !.polls = n, !.at = "returned"]
                        ELSE [prov EXCEPT !.polls = n, !.at = "sleep"]
               ELSE [prov EXCEPT !.warned = TRUE, !.at = "returned"]
    /\ UNCHANGED << pipeline_vars, ld_in, ld_out, scope, ask, del, deleted,
                    up_in, up_i, up_sent, up_out, em_in, em_out, ls_in, ls_out,
                    unit_vars >>

\* time.sleep(2); waited += 2
Sleep ==
    /\ scope = "provision"
    /\ prov.at = "sleep"
    /\ prov.polls <= MaxPolls
    /\ prov' = [prov EXCEPT !.slept = @ + 1, !.waited = @ + PollSleep, !.at = "poll"]
    /\ UNCHANGED << pipeline_vars, ld_in, ld_out, scope, ask, del, deleted,
                    up_in, up_i, up_sent, up_out, em_in, em_out, ls_in, ls_out,
                    unit_vars >>

NextProvision == ListAndCreate \/ Poll \/ Sleep

\* _ensure_index_exists runs to its end unless a call blocks
SpecProvision == InitProvision /\ [][NextProvision]_vars /\ WF_vars(NextProvision)

\* C11: a request that reaches Complete returns with total_characters the
\* length of the trimmed extracted text and num_chunks the number of records
\* stored for its document; a TXT file of 80 characters gives 1 and 80.
C11_ResultCounts ==
    \A r \in Reqs :
        pc[r] = "done" =>
            /\ outcome[r].kind = "return"
            /\ outcome[r].document_id = document_id[r]
            /\ outcome[r].file_name = req[r].file_name
            /\ outcome[r].total_characters = Strip(text[r]).core
            /\ outcome[r].num_chunks = Cardinality(RecordsOf(r))
            /\ (req[r].via = "route" => response[r].sent /\ response[r].success)
            /\ (req[r].file \in { Txt80, TxtPadded } =>
                    outcome[r].num_chunks = 1 /\ outcome[r].total_characters = 80)
            /\ (req[r].file = TxtLong =>
                    outcome[r].num_chunks = 101 /\ outcome[r].total_characters = 81000)

\* the TXT file of 80 characters was uploaded and ingested
C11_Witness ==
    \E r \in Reqs : /\ pc[r] = "done"
                    /\ req[r].file = Txt80
                    /\ req[r].via = "route"
                    /\ outcome[r].num_chunks = 1
                    /\ outcome[r].total_characters = 80

\* The records of the index that the filter of the last question selects
AskedRecords ==
    { v \in index : /\ v.metadata.user_id = ask.user_id
                    /\ v.metadata.document_id = ask.document_id }

BlankQuestion(q) == q.text.core = 0

\* C12: when the query of ask_question finds no record for the user and the
\* document, the result is the fixed sentence with no sources and
\* num_sources 0, and the generation model is not called.
C12_NoMatchSentinel ==
    (ask.called /\ ask.calls.query = 1 /\ ask.exc = "none" /\ AskedRecords = {})
    => /\ ask.kind = "return"
       /\ ask.matches = <<>>
       /\ ask.answer = NotFound
       /\ ask.sources = <<>>
       /\ ask.num_sources = 0
       /\ ask.calls.llm = 0

\* a user asked about a stored document of another user
C12_Witness ==
    /\ ask.called
    /\ ask.answer = NotFound
    /\ ask.calls.llm = 0
    /\ \E v \in index : /\ v.metadata.document_id = ask.document_id
                        /\ v.metadata.user_id # ask.user_id

\* C13: ask_question raises ValueError exactly for a blank question, before
\* any call, and every failure of a downstream call leaves as RuntimeError.
C13_ErrorKinds ==
    ask.called =>
        /\ BlankQuestion(ask.question) =>
              /\ ask.kind = "raise"
              /\ ask.exc = "ValueError"
              /\ ask.calls = NoAskCalls
        /\ (ask.kind = "raise" /\ ~BlankQuestion(ask.question))
              => ask.exc = "RuntimeError"

\* C14: n >= 1 matches give n sources, the i-th built from the i-th match,
\* num_sources n, and a context of the same n segments in the same order;
\* the matches are the best TOP_K records of the document by falling score.
C14_SourcesFollowMatches ==
    LET n == Len(ask.matches)
    IN  (ask.called /\ n >= 1) =>
          /\ n = Min(TOP_K, Cardinality(AskedRecords))
          /\ \A i \in 1..n :
                /\ \E v \in AskedRecords : /\ v.id = ask.matches[i].id
                                           /\ v.metadata = ask.matches[i].metadata
                /\ i < n => ask.matches[i].score > ask.matches[i + 1].score
          /\ ask.calls.llm = 1
          /\ Len(ask.context) = n
          /\ \A i \in 1..n :
                /\ ask.context[i].source = i
                /\ ask.context[i].chunk = ask.matches[i].metadata.chunk_index
                /\ ask.context[i].text = ask.matches[i].metadata.text
                /\ ask.context[i].relevance = Round4(ask.matches[i].score)
          /\ ask.kind = "return" =>
                /\ ask.num_sources = n
                /\ Len(ask.sources) = n
                /\ \A i \in 1..n :
                      /\ ask.sources[i].chunk_index = ask.matches[i].metadata.chunk_index
                      /\ ask.sources[i].text = ask.matches[i].metadata.text
                      /\ ask.sources[i].file_name = ask.matches[i].metadata.file_name
                      /\ ask.sources[i].relevance_score = Round4(ask.matches[i].score)

\* a question about a document of six chunks was answered from five of
\* them, the best match not being the first chunk
C14_Witness ==
    /\ ask.called
    /\ ask.kind = "return"
    /\ Cardinality(AskedRecords) = 6
    /\ ask.num_sources = 5
    /\ ask.sources[1].chunk_index # 0
    /\ ask.sources[1].relevance_score > ask.sources[5].relevance_score

\* C15: when the vector-store deletion of delete_document fails, the local
\* artifact deletion is attempted all the same and the failure is raised.
C15_DeletionsIndependent ==
    (del.called /\ del.delete_by_document = 1 /\ del.kind = "raise")
    => /\ del.exc = "RuntimeError"
       /\ del.delete_file = 1

\* The successful deletions of a document by the user who ingested it
OwnDeletions ==
    { e \in deleted : \E r \in Reqs : /\ pc[r] = "done"
                                      /\ document_id[r] = e.document_id
                                      /\ req[r].user_id = e.user_id }

AskedAfter(e) ==
    /\ ask.called
    /\ ask.deleted_before
    /\ ask.user_id = e.user_id
    /\ ask.document_id = e.document_id
    /\ ask.kind = "return"

Sentinel ==
    /\ ask.answer = NotFound
    /\ ask.sources = <<>>
    /\ ask.num_sources = 0

\* C16 as stated: once delete_document has returned for an ingested
\* document, no record and no directory of it remain and a question about
\* it gets the fixed sentence.
C16_DeletedIsGone ==
    \A e \in OwnDeletions :
        /\ \A v \in index : ~(/\ v.metadata.user_id = e.user_id
                              /\ v.metadata.document_id = e.document_id)
        /\ ~upload_dir[e.document_id].exists
        /\ AskedAfter(e) => Sentinel

\* C16 as amended: once delete_document has returned for an ingested
\* document, no record of it remains, its directory is gone unless the
\* removal of the directory failed, and a question about it that is
\* answered gets the fixed sentence.
C16_DeletedRecordsGone ==
    \A e \in OwnDeletions :
        /\ \A v \in index : ~(/\ v.metadata.user_id = e.user_id
                              /\ v.metadata.document_id = e.document_id)
        /\ upload_dir[e.document_id].exists <=> e.rmtree_error
        /\ AskedAfter(e) => (Sentinel /\ ask.calls.llm = 0)

\* a document of six chunks was ingested, deleted by its user and asked about
C16_Witness ==
    \E e \in OwnDeletions :
        /\ \E r \in Reqs : document_id[r] = e.document_id /\ Len(chunks[r]) = 6
        /\ ~upload_dir[e.document_id].exists
        /\ AskedAfter(e)
        /\ Sentinel

\* C17: the Store step builds one record per retained chunk, its metadata
\* carrying the chunk's text and index and its values the embedding of that
\* chunk; the id is determined by document id and chunk index and differs
\* between the chunks of a document; the records stored number num_chunks.
C17_OneRecordPerChunk ==
    /\ \A r \in Reqs :
          pc[r] \in { "store", "done" } =>
              LET V == VectorsOf(r)
              IN  /\ Len(V) = Len(chunks[r])
                  /\ \A k \in 1..Len(V) :
                        /\ V[k].metadata.chunk_index = k - 1
                        /\ V[k].metadata.text = chunks[r][k]
                        /\ V[k].metadata.document_id = document_id[r]
                        /\ V[k].metadata.user_id = req[r].user_id
                        /\ V[k].values.of = chunks[r][k]
                        /\ V[k].id[1] = document_id[r]
                  /\ pc[r] = "done" =>
                        /\ Cardinality({ v.id : v \in RecordsOf(r) }) = outcome[r].num_chunks
                        /\ RecordsOf(r) = Range(V)
                  /\ (pc[r] = "done" /\ req[r].file = TxtLong) =>
                        \E v \in RecordsOf(r) :
                            /\ v.metadata.chunk_index = 100
                            /\ v.id = <<document_id[r], "_chunk_", 1, 0, 0>>
    /\ \A v, w \in index :
          v.id = w.id <=> (/\ v.metadata.document_id = w.metadata.document_id
                           /\ v.metadata.chunk_index = w.metadata.chunk_index)

\* a document of 101 chunks was stored in two batches
C17_Witness ==
    \E r \in Reqs : /\ pc[r] = "done"
                    /\ outcome[r].num_chunks = 101
                    /\ Cardinality(RecordsOf(r)) = 101
                    /\ calls[r].index_upsert = 2

\* C18: every chunk handed to the embedding service and every chunk stored
\* has non-empty trimmed text, the blank chunks of the splitter being dropped;
\* when the splitter returns no chunk, or only blank ones, the request fails
\* with EMPTY_CHUNKS and the embedding service is not called.
C18_NoBlankChunks ==
    /\ \A r \in Reqs :
          /\ calls[r].embed_texts > 0 =>
                /\ chunks[r] # <<>>
                /\ \A k \in 1..Len(chunks[r]) : TLen(Strip(chunks[r][k])) > 0
                /\ Len(chunks[r]) = calls[r].split_returned - calls[r].split_blank
          /\ (/\ calls[r].split = 1
              /\ pc[r] # "chunk"
              /\ outcome[r].code # "INSUFFICIENT_CONTENT"
              /\ outcome[r].code # "UNKNOWN_ERROR"
              /\ calls[r].split_returned = calls[r].split_blank) =>
                /\ pc[r] = "failed"
                /\ outcome[r].code = "EMPTY_CHUNKS"
                /\ calls[r].embed_texts = 0
                /\ calls[r].upsert_vectors = 0
                /\ steps[r] = SubSeq(PipelineSteps, 1, 5)
          /\ outcome[r].code = "EMPTY_CHUNKS" =>
                calls[r].split_returned = calls[r].split_blank
    /\ \A v \in index : TLen(Strip(v.metadata.text)) > 0

\* the splitter returned a blank chunk among others and the document was stored
C18_Witness ==
    \E r \in Reqs : /\ pc[r] = "done"
                    /\ calls[r].split_blank = 1
                    /\ calls[r].split_returned = outcome[r].num_chunks + 1

\* the splitter returned only blank chunks
C18_WitnessAllBlank ==
    \E r \in Reqs : /\ outcome[r].code = "EMPTY_CHUNKS"
                    /\ calls[r].split_returned = 2
                    /\ calls[r].split_blank = 2

\* The batches handed to Index.upsert so far, end to end
RECURSIVE Flatten(_)
Flatten(bs) == IF bs = <<>> THEN <<>> ELSE Flatten(SubSeq(bs, 1, Len(bs) - 1)) \o bs[Len(bs)]

\* What upsert_vectors has handed to the backend, and what it returned
BatchesInOrder ==
    LET n == Len(up_in)
        sent == Flatten(up_sent)
    IN  /\ \A j \in 1..Len(up_sent) : Len(up_sent[j]) \in 1..100
        /\ \A j \in 1..(Len(up_sent) - 1) : Len(up_sent[j]) = 100
        /\ IsPrefix(sent, up_in)
        /\ (up_out.called /\ up_out.ok) =>
              /\ sent = up_in
              /\ Len(up_sent) = (n + 99) \div 100
              /\ up_out.count = n
              /\ up_out.exc = "none"
        /\ (up_out.called /\ n = 0) =>
              /\ up_sent = <<>>
              /\ up_out.ok
              /\ up_out.count = 0
        /\ (up_out.called /\ ~up_out.ok) =>
              /\ up_out.exc = "RuntimeError"
              /\ up_sent # <<>>
              /\ Len(sent) = Min(n, up_i + 100)

\* C19: upsert_vectors hands n records to the backend in consecutive batches
\* of at most 100, in input order, one call after the other: ceil(n/100)
\* calls, each record in exactly one batch, and n returned. Without records
\* it makes no call and returns 0. When a call fails it raises the service
\* error and makes no further call.
C19_Batches ==
    /\ []BatchesInOrder
    /\ [][up_out.called => up_sent' = up_sent]_vars

\* 250 records went out in three calls of 100, 100 and 50
C19_Witness ==
    /\ Len(up_in) = 250
    /\ up_out.called
    /\ up_out.ok
    /\ Len(up_sent) = 3
    /\ Len(up_sent[3]) = 50

\* the second of three calls failed
C19_WitnessFailure ==
    /\ Len(up_in) = 250
    /\ up_out.called
    /\ ~up_out.ok
    /\ Len(up_sent) = 2

\* The positions of the texts that have non-empty trimmed text
KeptPositions(ts) == { k \in 1..Len(ts) : TLen(Strip(ts[k])) > 0 }

\* The position of the i-th such text
KeptAt(ts, i) ==
    CHOOSE k \in KeptPositions(ts) : Cardinality({ j \in KeptPositions(ts) : j < k }) = i - 1

\* C20: embed_texts gives the model exactly the non-blank entries of its
\* list, in their order; it raises ValueError without calling the model when
\* the list is empty or all blank, and RuntimeError when the model fails.
\* embed_text raises ValueError on blank text without calling the model.
C20_EmbedInputs ==
    em_out.called =>
        LET ts == IF em_in.fn = "embed_texts" THEN em_in.texts
                  ELSE << em_in.texts[1].text >>
            kept == KeptPositions(ts)
        IN  /\ kept = {} =>
                  /\ em_out.exc = "ValueError"
                  /\ em_out.model_calls = 0
                  /\ em_out.model_in = <<>>
            /\ kept # {} =>
                  /\ em_out.model_calls = 1
                  /\ Len(em_out.model_in) = Cardinality(kept)
                  /\ \A i \in 1..Len(em_out.model_in) :
                        em_out.model_in[i] = ts[KeptAt(ts, i)]
                  /\ em_out.exc = (IF em_in.model_ok THEN "none" ELSE "RuntimeError")
                  /\ em_out.ok <=> em_in.model_ok
                  /\ em_out.ok => Len(em_out.vectors) = Cardinality(kept)

\* a list with a blank entry between two texts reached the model as two texts
C20_Witness ==
    /\ em_out.called
    /\ em_in.fn = "embed_texts"
    /\ em_in.texts = << Txt(1, 20, 1), Blank, Txt(0, 10, 0) >>
    /\ em_out.model_in = << Txt(1, 20, 1), Txt(0, 10, 0) >>
    /\ em_out.ok

\* The document ids of the matches that count: present and not empty
ListedIds(ms) ==
    { MetaDocumentId(ms[k]) : k \in 1..Len(ms) } \ { "none", "" }

\* The position of the first match of a document
FirstMatchOf(ms, d) ==
    CHOOSE k \in 1..Len(ms) :
        /\ MetaDocumentId(ms[k]) = d
        /\ \A j \in 1..(k - 1) : MetaDocumentId(ms[j]) # d

\* C21: whatever matches the backend returns, list_documents_for_user returns
\* a list without a repeated document_id, with one entry for every distinct
\* non-empty document_id among the matches, each with the file_name of the
\* first match of that id.
C21_ListedOnce ==
    (ls_out.called /\ ls_out.ok) =>
        LET ms == ls_in.records
            docs == ls_out.documents
        IN  /\ \A i, j \in 1..Len(docs) :
                  docs[i].document_id = docs[j].document_id => i = j
            /\ { docs[i].document_id : i \in 1..Len(docs) } = ListedIds(ms)
            /\ \A i \in 1..Len(docs) :
                  LET m == ms[FirstMatchOf(ms, docs[i].document_id)]
                  IN  docs[i].file_name =
                          (IF m.has_meta /\ m.file_name # "none"
                           THEN m.file_name ELSE "Unknown")

\* two matches of one document with different names, and one of another
C21_Witness ==
    /\ ls_out.called
    /\ ls_out.ok
    /\ ls_in.records = << Match(TRUE, "d1", "b.txt"), Match(TRUE, "d2", "a.txt"),
                          Match(TRUE, "d1", "a.txt") >>
    /\ ls_out.documents = << [document_id |-> "d1", file_name |-> "b.txt"],
                             [document_id |-> "d2", file_name |-> "a.txt"] >>

\* The extraction stages of a PDF, in their order, and what each reads
PdfStages == << "pypdf2", "pdfplumber", "ocr" >>

StageText(f, k) ==
    CASE k = 1 -> pdf_stage_pypdf2(f)
      [] k = 2 -> pdf_stage_pdfplumber(f)
      [] OTHER -> pdf_stage_ocr(f)

\* load was called on an existing file with a .pdf name
PdfLoaded ==
    /\ ld_out.called
    /\ ld_in.exists
    /\ ld_in.is_file
    /\ Lower(PathSuffix(ld_in.file_name)) = ExtPdf

\* C22: after the preflight check the PDF stages run in the order native
\* text, layout-aware, OCR; the first stage whose trimmed output has at least
\* 50 characters gives the returned text and no later stage runs; a stage
\* runs only when every earlier one read fewer than 50 trimmed characters;
\* when all three stay below, EmptyDocumentError is raised.
C22_StageCascade ==
    PdfLoaded =>
        LET f == ld_in.file
            run == Tail(ld_out.ran)
            n == Len(run)
            enough(k) == TLen(Strip(StageText(f, k))) >= 50
        IN  /\ ld_out.ran # <<>>
            /\ Head(ld_out.ran) = "preflight"
            /\ IsPrefix(run, PdfStages)
            /\ \A k \in 1..n : \A j \in 1..(k - 1) : ~enough(j)
            /\ ld_out.ok => n >= 1
            /\ (n >= 1 /\ enough(n)) =>
                  /\ ld_out.ok
                  /\ ld_out.text = Strip(StageText(f, n))
            /\ (n >= 1 /\ ~enough(n)) =>
                  /\ n = 3
                  /\ ~ld_out.ok
                  /\ ld_out.exc = "EmptyDocumentError"

\* stage 1 read 49 characters, stage 2 read 50 and gave the text; no OCR
C22_Witness ==
    /\ PdfLoaded
    /\ ld_in.file = PdfBoundary
    /\ ld_out.ok
    /\ ld_out.ran = << "preflight", "pypdf2", "pdfplumber" >>
    /\ TLen(ld_out.text) = 50

\* C23: the preflight runs before any stage; a PDF still encrypted after the
\* empty-password attempt fails with PasswordProtectedError, a zero-page PDF
\* with EmptyDocumentError, and a file whose structure cannot be opened or
\* read, whatever the failure, with CorruptedFileError; no stage runs then.
C23_PreflightClassifies ==
    PdfLoaded =>
        LET pre == ld_in.file.preflight
            stopped(x) == ~ld_out.ok /\ ld_out.exc = x /\ ld_out.ran = << "preflight" >>
        IN  /\ ld_out.ran # <<>> /\ Head(ld_out.ran) = "preflight"
            /\ pre \in { "encrypted", "decrypt_raises" } => stopped("PasswordProtectedError")
            /\ pre = "zero_pages" => stopped("EmptyDocumentError")
            /\ pre \in { "PdfReadError", "other_exception" } => stopped("CorruptedFileError")

\* What the loader of the file's type does before load's except clauses
RawLoad(file_name, f) ==
    LET ext == Lower(PathSuffix(file_name))
    IN  IF ext = ExtPdf THEN load_pdf(f)
        ELSE IF ext = ExtDocx THEN load_docx(f)
        ELSE load_txt(f)

\* C24: load raises FileLoadError or a subclass of it and nothing else: an
\* exception of another type raised in the PDF, DOCX or TXT path leaves load
\* as CorruptedFileError.
C24_OnlyFileLoadErrors ==
    ld_out.called =>
        /\ ld_out.ok \/ ld_out.exc \in FileLoadErrors
        /\ (/\ ld_in.exists
            /\ ld_in.is_file
            /\ Lower(PathSuffix(ld_in.file_name)) \in SUPPORTED_EXTENSIONS) =>
              LET raw == RawLoad(ld_in.file_name, ld_in.file)
              IN  /\ (~raw.ok /\ raw.exc \notin FileLoadErrors) =>
                        ~ld_out.ok /\ ld_out.exc = "CorruptedFileError"
                  /\ (~raw.ok /\ raw.exc \in FileLoadErrors) => ld_out.exc = raw.exc
                  /\ raw.ok => ld_out.ok /\ ld_out.text = raw.text

\* the PDF path raised an exception that is no FileLoadError
C24_Witness ==
    /\ PdfLoaded
    /\ load_pdf(ld_in.file).exc \notin FileLoadErrors \cup { "none" }
    /\ ld_out.exc = "CorruptedFileError"

\* The exception FileLoader.load raised in Step 3 of a request whose file
\* was saved
ExtractionError(r) == load(PathName(req[r].file_name), TRUE, TRUE, req[r].file).exc

\* The request failed in Step 3
FailedInExtract(r) == pc[r] = "failed" /\ steps[r] = SubSeq(PipelineSteps, 1, 3)

\* C25: an extraction failure is reported under the code of its type:
\* PasswordProtectedError as PASSWORD_PROTECTED, CorruptedFileError as
\* CORRUPTED_FILE, EmptyDocumentError as EMPTY_DOCUMENT, any other
\* FileLoadError as EXTRACTION_FAILED, and under no other code.
C25_ExtractionCodes ==
    \A r \in Reqs :
        /\ FailedInExtract(r) =>
              LET x == ExtractionError(r)
              IN  /\ outcome[r].exc = "DocumentProcessingError"
                  /\ x \in FileLoadErrors
                  /\ x = "PasswordProtectedError" <=> outcome[r].code = "PASSWORD_PROTECTED"
                  /\ x = "CorruptedFileError" <=> outcome[r].code = "CORRUPTED_FILE"
                  /\ x = "EmptyDocumentError" <=> outcome[r].code = "EMPTY_DOCUMENT"
                  /\ x \in { "FileLoadError", "UnsupportedFileTypeError",
                             "OCRUnavailableError" }
                        <=> outcome[r].code = "EXTRACTION_FAILED"
        /\ outcome[r].code \in { "PASSWORD_PROTECTED", "CORRUPTED_FILE", "EXTRACTION_FAILED" }
              => FailedInExtract(r)

\* a DOCX upload failed with the plain FileLoadError of a missing library
C25_Witness ==
    \E r \in Reqs : /\ FailedInExtract(r)
                    /\ ExtractionError(r) = "FileLoadError"
                    /\ outcome[r].code = "EXTRACTION_FAILED"

\* a PDF upload failed as password protected
C25_WitnessPassword ==
    \E r \in Reqs : /\ FailedInExtract(r)
                    /\ ExtractionError(r) = "PasswordProtectedError"
                    /\ outcome[r].code = "PASSWORD_PROTECTED"

\* C26: no internal exception detail reaches the caller: the message of
\* every failed upload and of every failed question is a text of this code
\* base and never the text of an exception of a backend, a library or the
\* file system.
C26_NoExceptionText ==
    /\ (ask.called /\ ask.kind = "raise") => ask.response.message.by = "app"
    /\ \A r \in Reqs : pc[r] = "failed" => UploadMessage(outcome[r]).by = "app"

\* C26, the upload side alone
C26_UploadMessages ==
    \A r \in Reqs :
        (response[r].sent /\ ~response[r].success) => UploadMessage(outcome[r]).by = "app"

\* C27: the file_name of a document is reduced to its base name before it
\* is stored: for every uploaded name, also one with directory components,
\* the file_name in the metadata of the records and in the ingestion result
\* is the base name under which the local artifact was saved.
C27_BaseNameStored ==
    \A r \in Reqs :
        pc[r] = "done" =>
            LET saved == upload_dir[document_id[r]].files
            IN  /\ saved = { PathName(req[r].file_name) }
                /\ outcome[r].file_name \in saved
                /\ \A v \in RecordsOf(r) : v.metadata.file_name \in saved

\* The external calls of a question that raised were made in their order
\* and stopped at the one that failed
AskCallsStopAtFailure ==
    (ask.called /\ ask.kind = "raise") =>
        LET c == ask.calls
        IN  << c.embed_text, c.query, c.llm >> \in
                { <<0, 0, 0>>, <<1, 0, 0>>, <<1, 1, 0>>, <<1, 1, 1>> }

\* C28: a failure of an external call ends the request and is not retried:
\* one process_document request calls the embedding service at most once,
\* one ask_question request calls the embedding service, the vector store
\* and the generation model at most once each, and after one of them has
\* failed the request makes no further external call.
C28_NoRetry ==
    /\ [](/\ \A r \in Reqs :
                /\ calls[r].embed_texts <= 1
                /\ calls[r].upsert_vectors <= 1
                /\ (pc[r] = "failed" /\ steps[r] = SubSeq(PipelineSteps, 1, 6)) =>
                      /\ calls[r].embed_texts = 1
                      /\ calls[r].upsert_vectors = 0
                      /\ calls[r].index_upsert = 0
          /\ ask.calls.embed_text <= 1
          /\ ask.calls.query <= 1
          /\ ask.calls.llm <= 1
          /\ AskCallsStopAtFailure)
    /\ [][\A r \in Reqs : pc[r] = "failed" =>
              /\ pc'[r] = "failed"
              /\ calls'[r].embed_texts = calls[r].embed_texts
              /\ calls'[r].upsert_vectors = calls[r].upsert_vectors
              /\ calls'[r].index_upsert = calls[r].index_upsert]_vars

\* an ingestion failed in the embedding call, and a question on another
\* document failed in the vector store after its embedding call
C28_Witness ==
    /\ \E r \in Reqs : /\ pc[r] = "failed"
                       /\ steps[r] = SubSeq(PipelineSteps, 1, 6)
                       /\ calls[r].embed_texts = 1
    /\ ask.called
    /\ ask.kind = "raise"
    /\ ask.calls = [embed_text |-> 1, query |-> 1, llm |-> 0]

\* What _ensure_index_exists has done so far
ProvisionedOnce ==
    /\ prov.created <= 1
    /\ prov.exists => (prov.created = 0 /\ prov.polls = 0 /\ ~prov.warned)
    /\ (~prov.exists /\ prov.at \notin { "off", "list" }) => prov.created = 1
    /\ prov.polls <= 60
    /\ prov.waited <= 120
    /\ prov.waited = 2 * prov.slept
    /\ (prov.at = "returned" /\ ~prov.exists) =>
          IF prov.ready_after \in 1..60
          THEN /\ prov.polls = prov.ready_after
               /\ prov.waited = 2 * (prov.ready_after - 1)
               /\ ~prov.warned
          ELSE /\ prov.polls = 60
               /\ prov.waited = 120
               /\ prov.warned

\* C29: _ensure_index_exists creates the index only when its name is not
\* among the existing indexes, then asks for readiness every 2 seconds and
\* returns as soon as the backend reports ready; the wait ends after at most
\* 120 seconds and 60 polls, and on timeout the function returns normally
\* with a warning.
C29_Provisioning ==
    /\ []ProvisionedOnce
    /\ <>(prov.at = "returned")

\* the index was created and never became ready: 60 polls, then the warning
C29_Witness ==
    /\ prov.at = "returned"
    /\ prov.created = 1
    /\ prov.ready_after = 0
    /\ prov.polls = 60
    /\ prov.warned

\* the index was created and was ready at the third poll
C29_WitnessReady ==
    /\ prov.at = "returned"
    /\ prov.created = 1
    /\ prov.polls = 3
    /\ prov.waited = 4
    /\ ~prov.warned

\* Requests r and q uploaded the same file under the same name for the same user
SameUpload(r, q) ==
    /\ r # q
    /\ document_id[r] # 0
    /\ document_id[q] # 0
    /\ req[r] = req[q]

\* C30: there is no update: every call of process_document draws a fresh
\* document_id, so the same file uploaded twice by one user gives two
\* documents with disjoint record ids and directories, and an upload neither
\* overwrites nor removes a record or a file of another document.
C30_NoUpdate ==
    /\ [](\A r, q \in Reqs :
            (r # q /\ document_id[r] # 0 /\ document_id[q] # 0) =>
                /\ document_id[r] # document_id[q]
                /\ { v.id : v \in RecordsOf(r) } \cap { v.id : v \in RecordsOf(q) } = {}
                /\ \A v \in RecordsOf(r) : v.id[1] = document_id[r]
                /\ (pc[r] = "done" /\ pc[q] = "done" /\ deleted = {}) =>
                      /\ Cardinality(RecordsOf(r)) = outcome[r].num_chunks
                      /\ Cardinality(RecordsOf(q)) = outcome[q].num_chunks)
    /\ [][(deleted' = deleted) =>
            \A r \in Reqs :
                pc[r] = "done" =>
                    /\ \A v \in RecordsOf(r) : v \in index'
                    /\ upload_dir'[document_id[r]] = upload_dir[document_id[r]]]_vars

\* one user uploaded the same file twice and both documents are stored
C30_Witness ==
    \E r, q \in Reqs :
        /\ SameUpload(r, q)
        /\ pc[r] = "done"
        /\ pc[q] = "done"
        /\ RecordsOf(r) # {}
        /\ RecordsOf(q) # {}
        /\ upload_dir[document_id[r]].exists
        /\ upload_dir[document_id[q]].exists

\* ------------------------------------------------------ concurrent requests
\* Requests that overlap: ingestions that are started while others are under
\* way, and delete_document(user_id, d) by the owner of a stored document
\* while an ingestion of another document is under way.
InitConcurrent ==
    /\ InitPipeline
    /\ ld_in = NoLoadArg
    /\ ld_out = NoLoadResult
    /\ scope = "concurrent"
    /\ InitAux

\* DocumentProcessor.delete_document on the document of request r, which is
\* stored, beside a request that has not ended
DeleteBesideIngestion(r) ==
    /\ scope = "concurrent"
    /\ pc[r] = "done"
    /\ \E q \in Reqs : q # r /\ ~Settled(q)
    /\ ~\E e \in deleted : e.document_id = document_id[r]
    /\ index' = IndexDelete(index, req[r].user_id, document_id[r])
    /\ upload_dir' = delete_file(upload_dir, document_id[r], TRUE)
    /\ deleted' = deleted \cup
           { [user_id |-> req[r].user_id, document_id |-> document_id[r],
              rmtree_error |-> FALSE] }
    /\ UNCHANGED << pc, req, document_id, next_uuid, text, clean_text, chunks,
                    embeddings, upsert_i, outcome, response, steps, calls,
                    ld_in, ld_out, scope, ask, del, up_in, up_i, up_sent, up_out,
                    em_in, em_out, more_vars >>

NextConcurrent ==
    \E r \in Reqs :
        \/ CallProcessDocument(r)
        \/ Validate(r)
        \/ SaveFile(r)
        \/ Extract(r)
        \/ TextCheck(r)
        \/ Chunk(r)
        \/ Embed(r)
        \/ StoreBatch(r)
        \/ Complete(r)
        \/ DeleteBesideIngestion(r)

SpecConcurrent == InitConcurrent /\ [][NextConcurrent]_vars

\* What process_document makes of the upload q under the document id d when
\* it runs alone with collaborators that answer: how it ends, and the
\* records and the directory it leaves
Alone(q, d) ==
    LET name == q.file_name
        res == load(PathName(name), TRUE, TRUE, q.file)
        clean == IF Truthy(res.text) THEN Strip(res.text) ELSE EmptyText
        cs == NonBlank(split(clean, "normal").chunks)
        embs == embed_texts(cs, TRUE).vectors
        fail(code) == [kind |-> "raise", code |-> code, num_chunks |-> 0,
                       records |-> {}, dir |-> NoDir]
    IN  IF ~validate_extension(name).ok THEN fail("UNSUPPORTED_FILE_TYPE")
        ELSE IF ~res.ok THEN fail(OuterHandler(ExtractHandler(res.exc)).code)
        ELSE IF TextCheckGate(clean) # "pass" THEN fail(TextCheckGate(clean))
        ELSE [kind |-> "return", code |-> "-", num_chunks |-> Len(cs),
              records |-> Range(prepare_vectors(cs, embs, q.user_id, d, name)),
              dir |-> [exists |-> TRUE, files |-> { PathName(name) }]]

\* The document of request r was deleted
Deleted(r) == \E e \in deleted : e.document_id = document_id[r]

\* A request that has ended is where it would be had it run alone
EndsAsAlone ==
    \A r \in Reqs :
        pc[r] \in { "done", "failed" } =>
            LET a == Alone(req[r], document_id[r])
            IN  /\ outcome[r].kind = a.kind
                /\ outcome[r].code = a.code
                /\ outcome[r].num_chunks = a.num_chunks
                /\ RecordsOf(r) = (IF Deleted(r) THEN {} ELSE a.records)
                /\ upload_dir[document_id[r]] = (IF Deleted(r) THEN NoDir ELSE a.dir)

\* The step taken is a step of request q, or the deletion of its document
StepOf(q) ==
    \/ pc'[q] # pc[q]
    \/ steps'[q] # steps[q]
    \/ upsert_i'[q] # upsert_i[q]
    \/ \E e \in deleted' \ deleted : e.document_id = document_id[q]

\* C31: requests for different documents do not contend: under every
\* interleaving of ingestions, and of an ingestion with the deletion of
\* another document, the records and the directory of a document change only
\* in steps of its own request or in its own deletion, rollback included,
\* and every request ends as it would have ended alone.
C31_NoContention ==
    /\ []EndsAsAlone
    /\ [][\A q \in Reqs :
            (document_id[q] # 0 /\ ~StepOf(q)) =>
                /\ { v \in index' : v.metadata.document_id = document_id[q] }
                       = RecordsOf(q)
                /\ upload_dir'[document_id[q]] = upload_dir[document_id[q]]]_vars

\* a request failed and rolled its directory back while the request started
\* before it was between its steps, and the stored document of a third
\* party to that step is untouched
C31_Witness ==
    \E r, q \in Reqs :
        /\ r < q
        /\ pc[r] = "store"
        /\ upsert_i[r] > 0
        /\ RecordsOf(r) # {}
        /\ upload_dir[document_id[r]].exists
        /\ pc[q] = "failed"
        /\ calls[q].delete_file = 1
        /\ ~upload_dir[document_id[q]].exists

\* a stored document was deleted while the ingestion of another document was
\* under way, and that ingestion stored its document
C31_WitnessDelete ==
    \E r, q \in Reqs :
        /\ r # q
        /\ Deleted(r)
        /\ RecordsOf(r) = {}
        /\ pc[q] = "done"
        /\ RecordsOf(q) # {}
        /\ upload_dir[document_id[q]].exists

\* ------------------------------------------------------ direct stage calls
\* The largest number of pages of a document handed to a stage
MaxPages == 3

SeqsUpTo(S, n) == UNION { [1..m -> S] : m \in 0..n }

\* What a page gives stages 1 and 3: a text, white space, nothing, an error
StagePages == { Pg(Txt(0, 10, 0)), Pg(Txt(1, 20, 2)), Pg(Blank), Pg(EmptyText), PgErr }
\* What a page gives stage 2: its text and its tables, an error before the
\* text was read, or an error of extract_tables after it
PlumberPages ==
    { Pg2(Txt(0, 10, 0), <<>>), Pg2(Txt(1, 20, 2), <<Txt(0, 40, 1), Blank>>),
      Pg2(Blank, <<Txt(0, 30, 0)>>), Pg2TablesErr(Txt(0, 10, 0)),
      Pg2TablesErr(Blank), Pg2Err }

\* The calls of the stages: every document of up to MaxPages pages, and a
\* one-page document with each failure outside the page loop
StageArgs ==
    { [stage |-> k, pages |-> ps, fault |-> "none"] :
        k \in {1, 3}, ps \in SeqsUpTo(StagePages, MaxPages) }
    \cup { [stage |-> 2, pages |-> ps, fault |-> "none"] :
             ps \in SeqsUpTo(PlumberPages, MaxPages) }
    \cup { [stage |-> 1, pages |-> <<Pg(Txt(0, 10, 0))>>, fault |-> x] :
             x \in { "import_error", "open_error" } }
    \cup { [stage |-> 2, pages |-> <<Pg2(Txt(0, 10, 0), <<>>)>>, fault |-> x] :
             x \in { "import_error", "open_error" } }
    \cup { [stage |-> 3, pages |-> <<Pg(Txt(0, 10, 0))>>, fault |-> x] :
             x \in { "import_error", "convert_error", "other_error" } }

\* The document as each stage meets it
StageInput(a) ==
    [s1 |-> [open_error |-> a.fault # "none", pages |-> a.pages],
     s2 |-> [import_error |-> a.fault = "import_error",
             open_error |-> a.fault = "open_error", pages |-> a.pages],
     s3 |-> [import_error |-> a.fault = "import_error",
             convert_error |-> a.fault = "convert_error",
             other_error |-> a.fault = "other_error", pages |-> a.pages]]

\* The list pages_text of a stage when it returns
pages_text(a) ==
    IF a.fault # "none" THEN <<>>
    ELSE IF a.stage = 2 THEN PlumberTexts(a.pages)
    ELSE PageTexts(a.pages)

\* The exception a failure outside the page loop raises inside the stage
FaultExc(x) ==
    CASE x = "import_error" -> "ImportError"
      [] x = "open_error" -> "PdfReadError"
      [] x = "convert_error" -> "PDFPageCountError"
      [] x = "other_error" -> "Exception"
      [] OTHER -> "none"

\* The except clauses that close stages 1 and 2: stage 1 lets
\* PasswordProtectedError pass, every other exception ends in return ""
StageHandler(k, x) == IF k = 1 /\ x = "PasswordProtectedError" THEN x ELSE "none"

InitStage ==
    /\ InitPipeline
    /\ ld_in = NoLoadArg
    /\ ld_out = NoLoadResult
    /\ scope = "stage"
    /\ ask = NoAsk
    /\ del = NoDel
    /\ deleted = {}
    /\ up_in = <<>>
    /\ up_i = 0
    /\ up_sent = <<>>
    /\ up_out = NoUpsertResult
    /\ em_in = NoEmbedArg
    /\ em_out = NoEmbedResult
    /\ ls_in = NoListArg
    /\ ls_out = NoListResult
    /\ prov = NoProvisioning
    /\ st_in \in StageArgs
    /\ st_out = NoStageResult
    /\ sp_in = NoSplitterArg
    /\ sp_out = NoSplitter

\* FileLoader._pdf_stage_pypdf2, _pdf_stage_pdfplumber or _pdf_stage_ocr on st_in
CallStage ==
    /\ ~st_out.called
    /\ LET f == StageInput(st_in)
       IN  st_out' = [called |-> TRUE,
                      exc |-> IF st_in.stage = 3 THEN pdf_stage_ocr_raises(f)
                              ELSE StageHandler(st_in.stage, FaultExc(st_in.fault)),
                      pages_text |-> pages_text(st_in),
                      text |-> CASE st_in.stage = 1 -> pdf_stage_pypdf2(f)
                                 [] st_in.stage = 2 -> pdf_stage_pdfplumber(f)
                                 [] OTHER -> pdf_stage_ocr(f)]
    /\ UNCHANGED << pipeline_vars, ld_in, ld_out, scope, ask, del, deleted, up_in,
                    up_i, up_sent, up_out, em_in, em_out, ls_in, ls_out, prov,
                    st_in, sp_in, sp_out >>

NextStage == CallStage

SpecStage == InitStage /\ [][NextStage]_vars

\* What one page adds to the output of stage k: nothing when its text
\* extraction failed, else its trimmed text when that is not empty and, in
\* stage 2, the trimmed non-empty texts of its tables when their extraction
\* did not fail
Contribution(k, pg) ==
    IF pg.err THEN <<>>
    ELSE (IF Truthy(Strip(pg.text)) THEN <<Strip(pg.text)>> ELSE <<>>)
         \o (IF k = 2 /\ ~pg.tables_err
             THEN SelectSeq([i \in 1..Len(pg.tables) |-> Strip(pg.tables[i])], Truthy)
             ELSE <<>>)

\* C32: in stages 1, 2 and 3 an extraction error on a page is skipped and
\* does not end the stage: the stage does not raise, and its output is made
\* of the texts of the pages whose text was extracted and is not empty, in
\* page order under one blank line between them, whatever pages failed.
C32_PageErrorsSkipped ==
    (st_out.called /\ st_in.fault = "none") =>
        LET ps == st_in.pages
            want == Flatten([i \in 1..Len(ps) |-> Contribution(st_in.stage, ps[i])])
        IN  /\ st_out.exc = "none"
            /\ st_out.pages_text = want
            /\ IF want = <<>> THEN st_out.text = EmptyText
               ELSE /\ Strip(st_out.text) = st_out.text
                    /\ TLen(st_out.text) = SumCore(want) + 2 * (Len(want) - 1)

\* stage 1 on three pages whose second page fails: the first and the third
C32_Witness ==
    /\ st_out.called
    /\ st_in.stage = 1
    /\ st_in.pages = << Pg(Txt(0, 10, 0)), PgErr, Pg(Txt(1, 20, 2)) >>
    /\ st_out.pages_text = << Txt(0, 10, 0), Txt(0, 20, 0) >>
    /\ st_out.text = Txt(0, 32, 0)

\* stage 2 on a page that fails, a page whose tables fail and a page with a
\* table: the text of the second, the text and the table of the third
C32_WitnessTables ==
    /\ st_out.called
    /\ st_in.stage = 2
    /\ st_in.pages = << Pg2Err, Pg2TablesErr(Txt(0, 10, 0)),
                        Pg2(Txt(1, 20, 2), <<Txt(0, 40, 1), Blank>>) >>
    /\ st_out.pages_text = << Txt(0, 10, 0), Txt(0, 20, 0), Txt(0, 40, 0) >>
    /\ st_out.exc = "none"

\* The OCR stage of file f cannot do its work
OcrUnavailable(f) == f.s3.import_error \/ f.s3.convert_error \/ f.s3.other_error

C33_WitnessRaster ==
    /\ PdfLoaded
    /\ ld_in.file \in { PdfScannedNoRaster, PdfScannedOcrBreaks }
    /\ ld_out.exc = "EmptyDocumentError"

\* load was called on an existing file with a .txt name that can be read
TxtLoaded ==
    /\ ld_out.called
    /\ ld_in.exists
    /\ ld_in.is_file
    /\ Lower(PathSuffix(ld_in.file_name)) = ExtTxt
    /\ ~ld_in.file.read_bytes_error
    /\ \A e \in DOMAIN ld_in.file.dec : ld_in.file.dec[e].kind # "error"

\* The encoding e decodes the file to a text that is not white space only
Readable(f, e) == f.dec[e].kind = "ok" /\ Truthy(Strip(f.dec[e].text))

C34_WitnessEmpty ==
    /\ TxtLoaded
    /\ ld_in.file \in { TxtEmpty, TxtBlank }
    /\ ld_out.exc = "EmptyDocumentError"

\* load was called on an existing file with a .docx name
DocxLoaded ==
    /\ ld_out.called
    /\ ld_in.exists
    /\ ld_in.is_file
    /\ Lower(PathSuffix(ld_in.file_name)) = ExtDocx

\* The stripped texts of ts that are not empty, in their order
NonEmptyTexts(ts) == SelectSeq([i \in 1..Len(ts) |-> Strip(ts[i])], Truthy)

\* A table row as one text: its non-empty cells under one tab between them
RowAsText(cells) ==
    LET kept == NonEmptyTexts(cells)
    IN  IF kept = <<>> THEN <<>>
        ELSE << Txt(0, SumCore(kept) + (Len(kept) - 1), 0) >>

\* The texts a DOCX document is to give: paragraphs, then the rows of the
\* tables in document order
DocxTexts(f) ==
    NonEmptyTexts(f.paragraphs)
    \o Flatten([t \in 1..Len(f.tables) |->
          Flatten([r \in 1..Len(f.tables[t]) |-> RowAsText(f.tables[t][r])])])

\* The three classes of failure and the returned text of the DOCX path
DocxClassified ==
    LET f == ld_in.file
        want == DocxTexts(f)
    IN  CASE f.open \in { "password_message", "encrypt_message" } ->
                ~ld_out.ok /\ ld_out.exc = "PasswordProtectedError"
          [] f.open \notin { "ok", "password_message", "encrypt_message" } ->
                ~ld_out.ok /\ ld_out.exc = "CorruptedFileError"
          [] f.open = "ok" /\ f.read_error ->
                ~ld_out.ok /\ ld_out.exc = "CorruptedFileError"
          [] f.open = "ok" /\ ~f.read_error /\ want = <<>> ->
                ~ld_out.ok /\ ld_out.exc = "EmptyDocumentError"
          [] OTHER ->
                /\ ld_out.ok
                /\ docx_text_parts(f) = want
                /\ ld_out.text = Txt(0, SumCore(want) + 2 * (Len(want) - 1), 0)

\* C35 as stated: every failure of the DOCX path is one of the three
\* classes: PasswordProtectedError for an open failure whose message speaks
\* of a password or of encryption, CorruptedFileError for any other open or
\* parse failure, EmptyDocumentError for a document without text; otherwise
\* the paragraphs and then the rows of the tables are returned.
C35_DocxClassifiesAll == DocxLoaded => DocxClassified

\* C35: with python-docx installed the DOCX path ends in one of the three
\* classes or returns the non-empty paragraph texts followed by the
\* tab-joined non-empty cells of each table row; without python-docx it
\* raises the base FileLoadError before the file is opened.
C35_DocxClassifies ==
    DocxLoaded =>
        IF ld_in.file.import_error
        THEN ~ld_out.ok /\ ld_out.exc = "FileLoadError" /\ ld_out.ran = <<>>
        ELSE DocxClassified

\* a document with paragraphs and tables gave its five texts
C35_Witness ==
    /\ DocxLoaded
    /\ ld_in.file = DocxMixed
    /\ ld_out.ok
    /\ docx_text_parts(ld_in.file)
         = << Txt(0, 40, 0), Txt(0, 30, 0), Txt(0, 51, 0), Txt(0, 7, 0), Txt(0, 12, 0) >>
    /\ ld_out.text = Txt(0, 148, 0)

\* an open failure whose message reads "is Encrypted"
C35_WitnessEncrypted ==
    /\ DocxLoaded
    /\ ld_in.file = DocxEncrypted
    /\ ld_out.exc = "PasswordProtectedError"

\* C36: load on a path that does not exist raises the base FileLoadError
\* with a message that contains "not found"; the existence check comes
\* before the extension check and before every parser, so that the error is
\* the same whatever the extension of the missing path.
C36_MissingFile ==
    (ld_out.called /\ ~ld_in.exists) =>
        /\ ~ld_out.ok
        /\ ld_out.exc = "FileLoadError"
        /\ Contains(Lower(ld_out.msg), << "n", "o", "t", " ", "f", "o", "u", "n", "d" >>)
        /\ ld_out.ran = <<>>

\* a missing path with an extension that is not supported
C36_Witness ==
    /\ ld_out.called
    /\ ~ld_in.exists
    /\ ld_in.file_name = NameExe
    /\ ld_out.exc = "FileLoadError"

\* a missing path with a supported extension
C36_WitnessPdf ==
    /\ ld_out.called
    /\ ~ld_in.exists
    /\ ld_in.file_name = NamePdf
    /\ ld_out.exc = "FileLoadError"
    /\ ld_out.msg = NotFoundMessage(NamePdf)

\* The deletions that returned for a stored document of another user
ForeignDeletions ==
    { e \in deleted : \E r \in Reqs : /\ pc[r] = "done"
                                      /\ document_id[r] = e.document_id
                                      /\ req[r].user_id # e.user_id }

\* C37: delete_document called with a user_id that does not own the
\* document_id changes nothing of the owner: the records of the document and
\* its local directory are both still there afterwards.
C37_ForeignDeleteKeepsAll ==
    \A e \in ForeignDeletions :
        \A r \in Reqs :
            (pc[r] = "done" /\ document_id[r] = e.document_id) =>
                /\ Cardinality(RecordsOf(r)) = outcome[r].num_chunks
                /\ \A v \in RecordsOf(r) : v.metadata.user_id = req[r].user_id
                /\ upload_dir[document_id[r]].exists
                /\ upload_dir[document_id[r]].files = { PathName(req[r].file_name) }

\* C37, the vector store alone: the records of the owner stay
C37_ForeignDeleteKeepsRecords ==
    \A e \in ForeignDeletions :
        \A r \in Reqs :
            (pc[r] = "done" /\ document_id[r] = e.document_id) =>
                /\ Cardinality(RecordsOf(r)) = outcome[r].num_chunks
                /\ \A v \in RecordsOf(r) : v.metadata.user_id = req[r].user_id

\* The record of the index behind the i-th match of the last question
Behind(i) == { v \in index : v.id = ask.matches[i].id }

\* Every source of the last question is taken from a record of the asking
\* user and of the document asked about
SourcesOfOwnDocument ==
    ask.called =>
        /\ Len(ask.sources) <= Len(ask.matches)
        /\ \A i \in 1..Len(ask.matches) :
              /\ ask.matches[i].metadata.user_id = ask.user_id
              /\ ask.matches[i].metadata.document_id = ask.document_id
              /\ \E v \in Behind(i) :
                    /\ v.metadata = ask.matches[i].metadata
                    /\ v.metadata.user_id = ask.user_id
                    /\ v.metadata.document_id = ask.document_id
        /\ \A i \in 1..Len(ask.sources) :
              /\ ask.sources[i].text = ask.matches[i].metadata.text
              /\ ask.sources[i].chunk_index = ask.matches[i].metadata.chunk_index
        /\ (\A r \in Reqs : ~(/\ req[r].user_id = ask.user_id
                              /\ document_id[r] = ask.document_id)) =>
              ask.sources = <<>>

\* C38: after any ingestions and deletions by any users, every source that
\* ask_question(question, user_id, document_id) returns comes from a record
\* whose metadata user_id and document_id are those of the request, and a
\* deletion removes the records that match both fields and no other record.
C38_Isolation ==
    /\ []SourcesOfOwnDocument
    /\ [][\A e \in deleted' \ deleted :
            /\ index' \subseteq index
            /\ \A v \in index :
                  v \in index' <=> ~(/\ v.metadata.user_id = e.user_id
                                     /\ v.metadata.document_id = e.document_id)]_vars

\* two users have a document each in the index and one of them was
\* answered from its own document
C38_Witness ==
    /\ ask.called
    /\ ask.kind = "return"
    /\ ask.num_sources >= 1
    /\ \E v \in index : v.metadata.user_id # ask.user_id
    /\ \E v \in index : v.metadata.document_id # ask.document_id

\* a user asked about the stored document of another user and got no source
C38_WitnessForeign ==
    /\ ask.called
    /\ ask.kind = "return"
    /\ ask.sources = <<>>
    /\ \E v \in index : /\ v.metadata.document_id = ask.document_id
                        /\ v.metadata.user_id # ask.user_id

\* a deletion left the records of another document in the index
C38_WitnessDelete ==
    /\ OwnDeletions # {}
    /\ index # {}

\* C39: whenever process_document ends in failure, with any error code and
\* also with SAVE_FAILED raised by a failure inside the Save step after the
\* document directory was made, no directory and no file of the document id
\* that was drawn remain in the upload directory.
C39_FailureLeavesNothing ==
    \A r \in Reqs :
        pc[r] = "failed" => upload_dir[document_id[r]] = NoDir

\* C39 without the Save step and without a removal that the file system
\* refuses: a failure after the Save step leaves nothing behind
C39_LaterFailureLeavesNothing ==
    \A r \in Reqs :
        (pc[r] = "failed" /\ outcome[r].code # "SAVE_FAILED"
                          /\ calls[r].rmtree_errors = 0) =>
            upload_dir[document_id[r]] = NoDir

\* ------------------------------------------------- TextSplitter.__init__
\* The arguments a splitter is constructed with
SplitterArgs ==
    { [chunk_size |-> a, chunk_overlap |-> b] :
        a \in { Omitted, Given(0), Given(1), Given(100), Given(200), Given(500),
                Given(1000), Given(1500) },
        b \in { Omitted, Given(0), Given(1), Given(50), Given(100), Given(200),
                Given(300) } }

\* x or default: the default when x is None and when x is 0
OrDefault(x, default) == IF ~x.given \/ x.value = 0 THEN default ELSE x.value

InitSplitter ==
    /\ InitPipeline
    /\ ld_in = NoLoadArg
    /\ ld_out = NoLoadResult
    /\ scope = "splitter"
    /\ ask = NoAsk
    /\ del = NoDel
    /\ deleted = {}
    /\ up_in = <<>>
    /\ up_i = 0
    /\ up_sent = <<>>
    /\ up_out = NoUpsertResult
    /\ em_in = NoEmbedArg
    /\ em_out = NoEmbedResult
    /\ ls_in = NoListArg
    /\ ls_out = NoListResult
    /\ prov = NoProvisioning
    /\ st_in = NoStageArg
    /\ st_out = NoStageResult
    /\ sp_in \in SplitterArgs
    /\ sp_out = NoSplitter

\* TextSplitter(chunk_size, chunk_overlap): the two attributes are set, then
\* RecursiveCharacterTextSplitter is constructed, which raises ValueError for
\* an overlap larger than the chunk size
ConstructSplitter ==
    /\ ~sp_out.called
    /\ LET size == OrDefault(sp_in.chunk_size, CHUNK_SIZE)
           overlap == OrDefault(sp_in.chunk_overlap, CHUNK_OVERLAP)
       IN  sp_out' = [called |-> TRUE,
                      exc |-> IF overlap > size THEN "ValueError" ELSE "none",
                      chunk_size |-> size, chunk_overlap |-> overlap]
    /\ UNCHANGED << pipeline_vars, ld_in, ld_out, scope, ask, del, deleted, up_in,
                    up_i, up_sent, up_out, em_in, em_out, ls_in, ls_out, prov,
                    st_in, st_out, sp_in >>

NextSplitter == ConstructSplitter

SpecSplitter == InitSplitter /\ [][NextSplitter]_vars

\* C40: TextSplitter uses the chunk_size and the chunk_overlap of the caller
\* whenever they are given and the configured defaults only when they are
\* omitted; constructed with chunk_overlap = 0 it is a splitter with overlap
\* 0 and not with the configured overlap.
C40_CallerValuesUsed ==
    sp_out.called =>
        /\ sp_out.chunk_size =
              (IF sp_in.chunk_size.given THEN sp_in.chunk_size.value ELSE CHUNK_SIZE)
        /\ sp_out.chunk_overlap =
              (IF sp_in.chunk_overlap.given THEN sp_in.chunk_overlap.value
               ELSE CHUNK_OVERLAP)

\* C40 for arguments other than 0: a value given is used, an omitted one is
\* replaced by the configured default
C40_NonZeroValuesUsed ==
    sp_out.called =>
        /\ sp_in.chunk_size # Given(0) =>
              sp_out.chunk_size =
                 (IF sp_in.chunk_size.given THEN sp_in.chunk_size.value ELSE CHUNK_SIZE)
        /\ sp_in.chunk_overlap # Given(0) =>
              sp_out.chunk_overlap =
                 (IF sp_in.chunk_overlap.given THEN sp_in.chunk_overlap.value
                  ELSE CHUNK_OVERLAP)

====
